---- MODULE Spec2Model ----
(***************************************************************************)
(* akane/media-decode: the chunked byte cursor (ByteReader), the bit       *)
(* cursor (BitReader) and the MPEG-2 transport stream / adaptation field / *)
(* PES packet decoders built on them.                                      *)
(*                                                                         *)
(* The repository holds two revisions of reader.ts: src/src/reader.ts (the *)
(* file transport_stream.ts imports as '../../reader.js') and              *)
(* src/unnamed/part_001.  They differ in ByteReader.next (only part_001    *)
(* resets the offset when a new chunk arrives), in BitReader.tcimsbf and   *)
(* in the peek/buf helpers.  The field impl of a reader says which         *)
(* revision it runs.                                                       *)
(***************************************************************************)
EXTENDS Integers, Sequences, FiniteSets, TLC

VARIABLES
  impl,      \* revision of reader.ts in use: "reader.ts" or "part_001"
  stream,    \* all bytes the reader is to deliver, in order (changes only with unshift)
  src,       \* ByteReader.src: the chunks the source has not delivered yet
  srcDefined,\* ByteReader.src !== undefined
  buffer,    \* ByteReader.buffer: the current chunk (BitReader.buffer in SpecBitReader)
  offset,    \* ByteReader.offset (BitReader.offset, in bits, in SpecBitReader)
  pc,        \* position of the caller: "ready", or the outcome of a generator
  call,      \* the last operation invoked: [op, n, pos] (pos: the cursor position before it)
  ret,       \* what the last operation returned
  err,       \* the error the last operation threw, or "none"
  yielded,   \* the packets parse_transport_stream has yielded so far
  ended,     \* Stream.ended
  push_queue,\* Stream.push_queue: the values pushed and not yet taken
  next_queue,\* Stream.next_queue: the pending next() calls, by their number
  results,   \* per next() call, in call order: <<>> while its promise is pending, else <<result>>
  pushed     \* the values a Stream has accepted, in push order

vars ==
  <<impl, stream, src, srcDefined, buffer, offset, pc, call, ret, err, yielded,
    ended, push_queue, next_queue, results, pushed>>

\* The variables of a Stream.
streamVars == <<ended, push_queue, next_queue, results, pushed>>

\* A Stream as constructed, with no call made on it.
NoStream ==
  /\ ended = FALSE
  /\ push_queue = <<>>
  /\ next_queue = <<>>
  /\ results = <<>>
  /\ pushed = <<>>

-----------------------------------------------------------------------------
(* Generic helpers *)

Min(a, b) == IF a < b THEN a ELSE b

RECURSIVE Concat(_)
Concat(chunks) == IF chunks = <<>> THEN <<>> ELSE Head(chunks) \o Concat(Tail(chunks))

Zeros(n) == [i \in 1..n |-> 0]

\* The revisions of reader.ts.
Impls == {"reader.ts", "part_001"}

\* What an out-of-range read of a Uint8Array gives (buffer[i] with i >= length).
undefined == -1

-----------------------------------------------------------------------------
(* ByteReader *)

\* The reader as a value: the fields of the class plus the revision it runs.
ByteReader(i, chunks) ==
  [impl |-> i, src |-> chunks, srcDefined |-> TRUE, buffer |-> <<>>, offset |-> 0]

\* Uint8Array.subarray(begin, end) for begin, end >= 0: both clamped to the length.
subarray(buf, begin, end) ==
  LET b == Min(begin, Len(buf))
      e == Min(end, Len(buf))
  IN  IF e <= b THEN <<>> ELSE SubSeq(buf, b + 1, e)

\* Uint8Array.set(source, at), once the range check has passed.
set(out, source, at) ==
  [i \in 1..Len(out) |->
     IF i > at /\ i <= at + Len(source) THEN source[i - at] ELSE out[i]]

\* ByteReader.next of src/src/reader.ts: the offset is left as it was.
next_reader_ts(b) ==
  IF ~b.srcDefined THEN [b |-> b, v |-> FALSE]
  ELSE IF b.src = <<>> THEN [b |-> [b EXCEPT !.srcDefined = FALSE], v |-> FALSE]
  ELSE [b |-> [b EXCEPT !.src = Tail(b.src), !.buffer = Head(b.src)], v |-> TRUE]

\* ByteReader.next of part_001: the offset restarts at 0 with the new chunk.
next_part_001(b) ==
  IF ~b.srcDefined THEN [b |-> b, v |-> FALSE]
  ELSE IF b.src = <<>> THEN [b |-> [b EXCEPT !.srcDefined = FALSE], v |-> FALSE]
  ELSE [b |-> [b EXCEPT !.src = Tail(b.src), !.buffer = Head(b.src), !.offset = 0],
        v |-> TRUE]

ByteReader_next(b) == IF b.impl = "part_001" THEN next_part_001(b) ELSE next_reader_ts(b)

\* ByteReader.eof: pull chunks while the current one is used up.
RECURSIVE ByteReader_eof(_)
ByteReader_eof(b) ==
  IF b.offset = Len(b.buffer)
  THEN LET n == ByteReader_next(b)
       IN  IF ~n.v THEN [b |-> n.b, v |-> TRUE] ELSE ByteReader_eof(n.b)
  ELSE [b |-> b, v |-> FALSE]

\* The loop of ByteReader.fill, n bytes of out already written.
RECURSIVE fill_loop(_, _, _)
fill_loop(b, out, n) ==
  IF ~(n < Len(out)) THEN [b |-> b, v |-> out, err |-> "none"]
  ELSE LET e == ByteReader_eof(b)
       IN  IF e.v THEN [b |-> e.b, v |-> out, err |-> "UnexpectedEOFError"]
           ELSE LET len == Min(Len(out) - n, Len(e.b.buffer) - e.b.offset)
                    sub == subarray(e.b.buffer, e.b.offset, e.b.offset + len)
                IN  IF n < 0 \/ n + Len(sub) > Len(out)
                    THEN [b |-> e.b, v |-> out, err |-> "RangeError"]
                    ELSE fill_loop([e.b EXCEPT !.offset = @ + len], set(out, sub, n), n + len)

ByteReader_fill(b, out) == fill_loop(b, out, 0)

\* ByteReader.byte: buffer[offset++], undefined when offset is past the chunk.
ByteReader_byte(b) ==
  LET e == ByteReader_eof(b)
  IN  IF e.v THEN [b |-> e.b, v |-> undefined, err |-> "UnexpectedEOFError"]
      ELSE [b |-> [e.b EXCEPT !.offset = @ + 1],
            v |-> IF e.b.offset < Len(e.b.buffer) THEN e.b.buffer[e.b.offset + 1]
                  ELSE undefined,
            err |-> "none"]

\* ByteReader.bytes: new Uint8Array(n) (a RangeError for n < 0), then fill.
ByteReader_bytes(b, n) ==
  IF n < 0 THEN [b |-> b, v |-> <<>>, err |-> "RangeError"]
  ELSE ByteReader_fill(b, Zeros(n))

\* The loop of peek_bytes in part_001: chunks are pulled until len >= n or
\* the source ends; arr is kept as the concatenation of the collected views.
RECURSIVE peek_bytes_loop(_, _, _)
peek_bytes_loop(b, arr, n) ==
  IF ~(Len(arr) < n) THEN [b |-> b, arr |-> arr]
  ELSE LET x == ByteReader_next(b)
       IN  IF ~x.v THEN [b |-> x.b, arr |-> arr]
           ELSE peek_bytes_loop(x.b, arr \o x.b.buffer, n)

\* ByteReader.peek_bytes of part_001: when the chunk holds fewer than n unread
\* bytes the collected views become the buffer, with offset 0; the result is
\* buffer.subarray(offset, n).
ByteReader_peek_bytes(b, n) ==
  LET l == peek_bytes_loop(b, subarray(b.buffer, b.offset, Len(b.buffer)), n)
      m == IF Len(b.buffer) - b.offset < n
           THEN [l.b EXCEPT !.buffer = l.arr, !.offset = 0]
           ELSE b
  IN  [b |-> m, v |-> subarray(m.buffer, m.offset, n)]

\* ByteReader.peek_buffer of part_001: with offset # 0 the buffer becomes its
\* unread part; the offset is not assigned.
ByteReader_peek_buffer(b) ==
  LET m == IF b.offset # 0
           THEN [b EXCEPT !.buffer = subarray(b.buffer, b.offset, Len(b.buffer))]
           ELSE b
  IN  [b |-> m, v |-> m.buffer]

\* ByteReader.unshift, the same in both revisions.  With the offset past the
\* chunk, merged is shorter than buffer (or of negative length) and the
\* constructor or merged.set(buffer, 0) throws a RangeError.
ByteReader_unshift(b, x) ==
  IF b.offset = Len(b.buffer) THEN [b |-> [b EXCEPT !.buffer = x, !.offset = 0], err |-> "none"]
  ELSE IF b.offset > Len(b.buffer) THEN [b |-> b, err |-> "RangeError"]
  ELSE [b |-> [b EXCEPT !.buffer = x \o subarray(b.buffer, b.offset, Len(b.buffer)),
                        !.offset = 0],
        err |-> "none"]

-----------------------------------------------------------------------------
(* JavaScript numbers.  The decoders build values of up to 53 bits, wider
   than the integers of the model checker, so a number x is kept as the pair
   <<hi, lo>> with x = hi * 2^30 + lo and 0 <= lo < 2^30 (hi < 0 for x < 0). *)

Radix == 2^30

\* The number x, for 0 <= x < 2^30.
Num(x) == <<0, x>>

\* value * 2 + bit
Times2Plus(value, bit) ==
  LET lo2 == 2 * value[2] + bit
  IN  <<2 * value[1] + (lo2 \div Radix), lo2 % Radix>>

\* value * Math.pow(2, 15) + low, for 0 <= low < 2^15
Shift15Plus(value, low) ==
  <<value[1] * (2^15) + (value[2] \div (2^15)), (value[2] % (2^15)) * (2^15) + low[2]>>

\* -(value + 1)
NegPlus1(value) == <<-value[1] - 1, Radix - 1 - value[2]>>

\* A number below 2^30 as an integer of the model (lengths, flags, counts).
ToInt(value) == value[2]

-----------------------------------------------------------------------------
(* BitReader.  A thrown error is latched in the field err of the reader:     *)
(* every later operation on it does nothing, as the code after a throw is   *)
(* never run.                                                               *)

BitReader(i, buf) == [impl |-> i, buffer |-> buf, offset |-> 0, err |-> "none"]

Throw(r, e) == IF r.err = "none" THEN [r EXCEPT !.err = e] ELSE r

\* (byte >>> (7 - (offset & 7))) & 1 for the byte at offset >>> 3
BitAt(r) ==
  (r.buffer[(r.offset \div 8) + 1] \div (2^(7 - (r.offset % 8)))) % 2

\* A pass of the loop that forgets to double the value before it adds the bit.
uimsbf_step_undoubled(s) ==
  [r |-> [s.r EXCEPT !.offset = @ + 1], v |-> <<s.v[1], s.v[2] + BitAt(s.r)>>, i |-> s.i + 1]

\* One pass of the loop of uimsbf on s = [r, v, i]: v = v * 2 + bit, offset++,
\* i++.
uimsbf_step(s) ==
  [r |-> [s.r EXCEPT !.offset = @ + 1], v |-> Times2Plus(s.v, BitAt(s.r)), i |-> s.i + 1]

\* The loop of uimsbf run from pass s.i until i reaches n: one pass, or the
\* passes up to the middle followed by the rest.
RECURSIVE uimsbf_loop(_, _)
uimsbf_loop(s, n) ==
  IF ~(s.i < n) THEN s
  ELSE IF n - s.i = 1 THEN uimsbf_step(s)
  ELSE LET half == uimsbf_loop(s, (s.i + n) \div 2)
       IN  uimsbf_loop(half, n)

\* return value, with the reader as the loop left it.
uimsbf_return(s) == [r |-> s.r, v |-> s.v]

BitReader_uimsbf(r, n) ==
  IF r.err # "none" THEN [r |-> r, v |-> Num(0)]
  ELSE IF n > 53 THEN [r |-> Throw(r, "Error"), v |-> Num(0)]
  ELSE IF r.offset + n > Len(r.buffer) * 8
       THEN [r |-> Throw(r, "UnexpectedEOFError"), v |-> Num(0)]
  ELSE uimsbf_return(uimsbf_loop([r |-> r, v |-> Num(0), i |-> 0], n))

BitReader_bslbf(r, n) == BitReader_uimsbf(r, n)

\* tcimsbf of src/src/reader.ts: the sign is noticed but never used.
tcimsbf_reader_ts(r, n) ==
  IF r.err # "none" THEN [r |-> r, v |-> Num(0)]
  ELSE IF n > 53 THEN [r |-> Throw(r, "Error"), v |-> Num(0)]
  ELSE IF r.offset + n > Len(r.buffer) * 8
       THEN [r |-> Throw(r, "UnexpectedEOFError"), v |-> Num(0)]
  ELSE uimsbf_return(uimsbf_loop([r |-> r, v |-> Num(0), i |-> 0], n))

\* One pass of the loop of tcimsbf in part_001 on s = [r, v, negative, i]:
\* the bit is complemented once the first bit was 1.
tcimsbf_step(s) ==
  LET bit == BitAt(s.r)
      negative == s.negative \/ (s.i = 0 /\ bit = 1)
  IN  [r |-> [s.r EXCEPT !.offset = @ + 1],
       v |-> Times2Plus(s.v, IF negative THEN 1 - bit ELSE bit),
       negative |-> negative,
       i |-> s.i + 1]

\* The loop of tcimsbf run from pass s.i until i reaches n: one pass, or the
\* passes up to the middle followed by the rest.
RECURSIVE tcimsbf_loop(_, _)
tcimsbf_loop(s, n) ==
  IF ~(s.i < n) THEN s
  ELSE IF n - s.i = 1 THEN tcimsbf_step(s)
  ELSE LET half == tcimsbf_loop(s, (s.i + n) \div 2)
       IN  tcimsbf_loop(half, n)

\* if (negative) value = -(value + 1)
tcimsbf_sign(s) == [r |-> s.r, v |-> IF s.negative THEN NegPlus1(s.v) ELSE s.v]

tcimsbf_part_001(r, n) ==
  IF r.err # "none" THEN [r |-> r, v |-> Num(0)]
  ELSE IF n > 53 THEN [r |-> Throw(r, "Error"), v |-> Num(0)]
  ELSE IF r.offset + n > Len(r.buffer) * 8
       THEN [r |-> Throw(r, "UnexpectedEOFError"), v |-> Num(0)]
  ELSE tcimsbf_sign(tcimsbf_loop([r |-> r, v |-> Num(0), negative |-> FALSE, i |-> 0], n))

BitReader_tcimsbf(r, n) ==
  IF r.impl = "part_001" THEN tcimsbf_part_001(r, n) ELSE tcimsbf_reader_ts(r, n)

\* A bytes that advances the offset by one per byte copied instead of eight.
BitReader_bytes_bit_steps(r, n) ==
  IF r.err # "none" THEN [r |-> r, v |-> <<>>]
  ELSE IF r.offset % 8 # 0 THEN [r |-> Throw(r, "ByteNotAlignedError"), v |-> <<>>]
  ELSE IF (r.offset \div 8) + n > Len(r.buffer)
       THEN [r |-> Throw(r, "UnexpectedEOFError"), v |-> <<>>]
  ELSE [r |-> [r EXCEPT !.offset = @ + n],
        v |-> SubSeq(r.buffer, (r.offset \div 8) + 1, (r.offset \div 8) + n)]

\* A bytes that looks at the bound before the alignment.
BitReader_bytes_bound_first(r, n) ==
  IF r.err # "none" THEN [r |-> r, v |-> <<>>]
  ELSE IF (r.offset \div 8) + n > Len(r.buffer)
       THEN [r |-> Throw(r, "UnexpectedEOFError"), v |-> <<>>]
  ELSE IF r.offset % 8 # 0 THEN [r |-> Throw(r, "ByteNotAlignedError"), v |-> <<>>]
  ELSE [r |-> [r EXCEPT !.offset = @ + 8 * n],
        v |-> SubSeq(r.buffer, (r.offset \div 8) + 1, (r.offset \div 8) + n)]

\* BitReader.bytes: alignment, then the bound, then new Uint8Array(n)
\* (a RangeError for n < 0), then the copy.
BitReader_bytes(r, n) ==
  IF r.err # "none" THEN [r |-> r, v |-> <<>>]
  ELSE IF r.offset % 8 # 0 THEN [r |-> Throw(r, "ByteNotAlignedError"), v |-> <<>>]
  ELSE IF (r.offset \div 8) + n > Len(r.buffer)
       THEN [r |-> Throw(r, "UnexpectedEOFError"), v |-> <<>>]
  ELSE IF n < 0 THEN [r |-> Throw(r, "RangeError"), v |-> <<>>]
  ELSE [r |-> [r EXCEPT !.offset = @ + 8 * n],
        v |-> SubSeq(r.buffer, (r.offset \div 8) + 1, (r.offset \div 8) + n)]

BitReader_tell(r) == r.offset

-----------------------------------------------------------------------------
(* transport_stream.ts: the checks of fixed bit patterns *)

sync_byte == 71

marker_bit(r) ==
  LET x == BitReader_bslbf(r, 1)
  IN  IF x.r.err = "none" /\ ToInt(x.v) # 1 THEN Throw(x.r, "MalformedDataError") ELSE x.r

\* One pass of the loop of reserved_bits: a bit that must be 1.
reserved_bits_step(r) ==
  LET x == BitReader_bslbf(r, 1)
  IN  IF x.r.err = "none" /\ ToInt(x.v) # 1
      THEN Throw(x.r, "UnimplementedReserveError") ELSE x.r

\* The passes i .. n-1 of the loop of reserved_bits, none once it has thrown:
\* one pass, or the first half of the passes followed by the second half.
RECURSIVE reserved_bits_loop(_, _, _)
reserved_bits_loop(r, i, n) ==
  IF ~(i < n) \/ r.err # "none" THEN r
  ELSE IF n - i = 1 THEN reserved_bits_step(r)
  ELSE LET half == reserved_bits_loop(r, i, (i + n) \div 2)
       IN  reserved_bits_loop(half, (i + n) \div 2, n)

reserved_bits(r, n) == reserved_bits_loop(r, 0, n)

stuffing_bytes(r, n) ==
  LET x == BitReader_bytes(r, n)
  IN  IF x.r.err = "none" /\ \E i \in 1..Len(x.v) : x.v[i] # 255
      THEN Throw(x.r, "MalformedDataError") ELSE x.r

padding_bytes(r, n) ==
  LET x == BitReader_bytes(r, n)
  IN  IF x.r.err = "none" /\ \E i \in 1..Len(x.v) : x.v[i] # 255
      THEN Throw(x.r, "MalformedDataError") ELSE x.r

check_constant(r, n, value) ==
  LET x == BitReader_bslbf(r, n)
  IN  IF x.r.err = "none" /\ ToInt(x.v) # value THEN Throw(x.r, "MalformedDataError") ELSE x.r

\* optional.key = value
Put(optional, key, value) ==
  [k \in DOMAIN optional \cup {key} |-> IF k = key THEN value ELSE optional[k]]

\* { ...a, ...b }
Spread(a, b) ==
  [k \in DOMAIN a \cup DOMAIN b |-> IF k \in DOMAIN b THEN b[k] ELSE a[k]]

\* A three-part time stamp: 3 bits, marker, 15 bits, marker, 15 bits, marker.
\* Gives the reader after it and the value ((h * 2^15) + m) * 2^15 + l.
timestamp(r) ==
  LET h  == BitReader_bslbf(r, 3)
      m1 == marker_bit(h.r)
      m  == BitReader_bslbf(m1, 15)
      m2 == marker_bit(m.r)
      l  == BitReader_bslbf(m2, 15)
      m3 == marker_bit(l.r)
  IN  [v |-> Shift15Plus(Shift15Plus(h.v, m.v), l.v), r |-> m3]

-----------------------------------------------------------------------------
(* parse_adaptation_field.  The bit-level part works on a pair
   [r, optional]: the BitReader and the optional fields decoded so far. *)

\* PCR and OPCR: 33 bits, 6 reserved bits, 9 bits.
af_clock_reference(s, base, extension) ==
  LET b == BitReader_uimsbf(s.r, 33)
      v == reserved_bits(b.r, 6)
      e == BitReader_uimsbf(v, 9)
  IN  [optional |-> Put(Put(s.optional, base, b.v), extension, e.v), r |-> e.r]

af_splice_countdown(s) ==
  LET c == BitReader_tcimsbf(s.r, 8)
  IN  [r |-> c.r, optional |-> Put(s.optional, "splice_countdown", c.v)]

af_private_data(s) ==
  LET transport_private_data_length == BitReader_uimsbf(s.r, 8)
      d == BitReader_bytes(transport_private_data_length.r,
                           ToInt(transport_private_data_length.v))
  IN  [r |-> d.r, optional |-> Put(s.optional, "private_data", d.v)]

af_ltw(s) ==
  LET f == BitReader_bslbf(s.r, 1)
      o == BitReader_uimsbf(f.r, 15)
  IN  [optional |-> Put(Put(s.optional, "ltw_valid_flag", ToInt(f.v) = 1), "ltw_offset", o.v),
       r |-> o.r]

af_piecewise_rate(s) ==
  LET v == reserved_bits(s.r, 2)
      p == BitReader_uimsbf(v, 22)
  IN  [r |-> p.r, optional |-> Put(s.optional, "piecewise_rate", p.v)]

af_seamless_splice(s) ==
  LET t == BitReader_bslbf(s.r, 4)
      d == timestamp(t.r)
  IN  [optional |-> Put(Put(s.optional, "Splice_type", t.v), "DTS_next_AU", d.v), r |-> d.r]

\* for (;;) parse_af_descriptor(): the loop has no exit, so the decode never
\* returns (unless the descriptor parser throws).
af_descriptor_loop(r) == Throw(r, "never returns")

\* The extension: its length byte, the four flags and the 4 reserved bits.
af_extension_flags(r0) ==
  LET adaptation_field_extension_length == BitReader_uimsbf(r0, 8)
      ltw_flag == BitReader_bslbf(adaptation_field_extension_length.r, 1)
      piecewise_rate_flag == BitReader_bslbf(ltw_flag.r, 1)
      seamless_splice_flag == BitReader_bslbf(piecewise_rate_flag.r, 1)
      af_descriptor_not_present_flag == BitReader_bslbf(seamless_splice_flag.r, 1)
  IN  [start |-> BitReader_tell(r0) + 8,
       adaptation_field_extension_length |-> ToInt(adaptation_field_extension_length.v),
       ltw_flag |-> ToInt(ltw_flag.v),
       piecewise_rate_flag |-> ToInt(piecewise_rate_flag.v),
       seamless_splice_flag |-> ToInt(seamless_splice_flag.v),
       af_descriptor_not_present_flag |-> ToInt(af_descriptor_not_present_flag.v),
       r |-> reserved_bits(af_descriptor_not_present_flag.r, 4)]

af_extension_ltw(e, s) == IF e.ltw_flag = 1 THEN af_ltw(s) ELSE s

af_extension_piecewise(e, s) == IF e.piecewise_rate_flag = 1 THEN af_piecewise_rate(s) ELSE s

af_extension_seamless(e, s) == IF e.seamless_splice_flag = 1 THEN af_seamless_splice(s) ELSE s

\* The descriptors, or the reserved bits up to the extension's declared length.
af_extension_end(e, s) ==
  IF e.af_descriptor_not_present_flag = 0
  THEN [s EXCEPT !.r = af_descriptor_loop(s.r)]
  ELSE [s EXCEPT !.r = reserved_bits(s.r,
          8 * e.adaptation_field_extension_length - (BitReader_tell(s.r) - e.start))]

af_extension_fields(e, optional) ==
  af_extension_end(e,
    af_extension_seamless(e,
      af_extension_piecewise(e,
        af_extension_ltw(e, [r |-> e.r, optional |-> optional]))))

af_extension(s) == af_extension_fields(af_extension_flags(s.r), s.optional)

\* The three indicators and the five presence flags.
af_flags(r0) ==
  LET discontinuity_indicator == BitReader_bslbf(r0, 1)
      random_access_indicator == BitReader_bslbf(discontinuity_indicator.r, 1)
      elementary_stream_priority_indicator == BitReader_bslbf(random_access_indicator.r, 1)
      PCR_flag == BitReader_bslbf(elementary_stream_priority_indicator.r, 1)
      OPCR_flag == BitReader_bslbf(PCR_flag.r, 1)
      splicing_point_flag == BitReader_bslbf(OPCR_flag.r, 1)
      transport_private_data_flag == BitReader_bslbf(splicing_point_flag.r, 1)
      adaptation_field_extension_flag == BitReader_bslbf(transport_private_data_flag.r, 1)
  IN  [start |-> BitReader_tell(r0),
       discontinuity_indicator |-> ToInt(discontinuity_indicator.v) = 1,
       random_access_indicator |-> ToInt(random_access_indicator.v) = 1,
       elementary_stream_priority_indicator |->
          ToInt(elementary_stream_priority_indicator.v) = 1,
       PCR_flag |-> ToInt(PCR_flag.v),
       OPCR_flag |-> ToInt(OPCR_flag.v),
       splicing_point_flag |-> ToInt(splicing_point_flag.v),
       transport_private_data_flag |-> ToInt(transport_private_data_flag.v),
       adaptation_field_extension_flag |-> ToInt(adaptation_field_extension_flag.v),
       r |-> adaptation_field_extension_flag.r]

af_PCR(f) ==
  IF f.PCR_flag = 1
  THEN af_clock_reference([r |-> f.r, optional |-> <<>>], "program_clock_reference_base",
                          "program_clock_reference_extension")
  ELSE [r |-> f.r, optional |-> <<>>]

af_OPCR(f, s) ==
  IF f.OPCR_flag = 1
  THEN af_clock_reference(s, "original_program_clock_reference_base",
                          "original_program_clock_reference_extension")
  ELSE s

af_splicing_point(f, s) == IF f.splicing_point_flag = 1 THEN af_splice_countdown(s) ELSE s

af_transport_private_data(f, s) ==
  IF f.transport_private_data_flag = 1 THEN af_private_data(s) ELSE s

af_adaptation_field_extension(f, s) ==
  IF f.adaptation_field_extension_flag = 1 THEN af_extension(s) ELSE s

\* stuffing_bytes(r, adaptation_field_length - (r.tell() - _start)) and the result.
af_stuffing(f, s, adaptation_field_length) ==
  [r |-> stuffing_bytes(s.r, adaptation_field_length - (BitReader_tell(s.r) - f.start)),
   field |-> Spread(
      [discontinuity_indicator |-> f.discontinuity_indicator,
       random_access_indicator |-> f.random_access_indicator,
       elementary_stream_priority_indicator |-> f.elementary_stream_priority_indicator],
      s.optional)]

af_fields(f, adaptation_field_length) ==
  af_stuffing(f,
    af_adaptation_field_extension(f,
      af_transport_private_data(f,
        af_splicing_point(f,
          af_OPCR(f, af_PCR(f))))),
    adaptation_field_length)

\* The decode of the adaptation_field_length bytes after the length byte.
adaptation_field_body(r0, adaptation_field_length) ==
  af_fields(af_flags(r0), adaptation_field_length)

\* The return (or throw) of parse_adaptation_field once the body d is decoded.
af_return(b, adaptation_field_length, d) ==
  IF d.r.err # "none"
  THEN [b |-> b, err |-> d.r.err, returned |-> FALSE, ret |-> <<>>]
  ELSE [b |-> b, err |-> "none", returned |-> TRUE,
        ret |-> <<adaptation_field_length, d.field>>]

\* parse_adaptation_field after b.bytes(adaptation_field_length) gave body.
af_after_bytes(i, adaptation_field_length, body) ==
  IF body.err # "none"
  THEN [b |-> body.b, err |-> body.err, returned |-> FALSE, ret |-> <<>>]
  ELSE af_return(body.b, adaptation_field_length,
                 adaptation_field_body(BitReader(i, body.v), adaptation_field_length))

\* parse_adaptation_field after b.byte() gave the length byte x.
\* new Uint8Array(undefined) has length 0.
af_after_length(i, x) ==
  IF x.err # "none" THEN [b |-> x.b, err |-> x.err, returned |-> FALSE, ret |-> <<>>]
  ELSE IF x.v = 0 THEN [b |-> x.b, err |-> "none", returned |-> FALSE, ret |-> <<>>]
  ELSE af_after_bytes(i, x.v, ByteReader_bytes(x.b, IF x.v = undefined THEN 0 ELSE x.v))

\* parse_adaptation_field(b): [b, err, returned, ret].  returned is FALSE when
\* the function returns nothing (length byte 0) or throws; otherwise ret is
\* the pair <<adaptation_field_length, fields>>.
parse_adaptation_field(b) == af_after_length(b.impl, ByteReader_byte(b))

-----------------------------------------------------------------------------
(* parse_transport_packet and parse_transport_stream *)

\* The 3 header bytes after the sync byte, read through a BitReader.
transport_packet_header(r0) ==
  LET transport_error_indicator == BitReader_bslbf(r0, 1)
      payload_unit_start_indicator == BitReader_bslbf(transport_error_indicator.r, 1)
      transport_priority == BitReader_bslbf(payload_unit_start_indicator.r, 1)
      PID == BitReader_uimsbf(transport_priority.r, 13)
      transport_scrambling_control == BitReader_bslbf(PID.r, 2)
      adaptation_field_control == BitReader_bslbf(transport_scrambling_control.r, 2)
      continuity_counter == BitReader_uimsbf(adaptation_field_control.r, 4)
  IN  [fields |-> [transport_error_indicator |-> transport_error_indicator.v,
                   payload_unit_start_indicator |-> payload_unit_start_indicator.v,
                   transport_priority |-> transport_priority.v,
                   PID |-> PID.v,
                   transport_scrambling_control |-> transport_scrambling_control.v,
                   continuity_counter |-> continuity_counter.v],
       adaptation_field_control |-> ToInt(adaptation_field_control.v)]

\* The returned record, once the payload read gave data_byte.
transport_packet_return(h, af, data_byte) ==
  IF data_byte.err # "none" THEN [b |-> data_byte.b, err |-> data_byte.err, ret |-> <<>>]
  ELSE [b |-> data_byte.b, err |-> "none",
        ret |-> Spread(
           IF af.returned THEN Put(h.fields, "adaptation_field", af.ret[2]) ELSE h.fields,
           IF h.adaptation_field_control \in {1, 3} THEN [data_byte |-> data_byte.v]
           ELSE <<>>)]

\* The payload: b.bytes(184 - ((adaptation_field_length ?? -1) + 1)) when
\* adaptation_field_control is 01 or 11.
transport_packet_payload(h, af) ==
  IF af.err # "none" THEN [b |-> af.b, err |-> af.err, ret |-> <<>>]
  ELSE transport_packet_return(h, af,
         IF h.adaptation_field_control \in {1, 3}
         THEN ByteReader_bytes(af.b, 184 - ((IF af.returned THEN af.ret[1] ELSE -1) + 1))
         ELSE [b |-> af.b, v |-> <<>>, err |-> "none"])

\* The adaptation field, when adaptation_field_control is 10 or 11.
transport_packet_rest(b1, h) ==
  transport_packet_payload(h,
    IF h.adaptation_field_control \in {2, 3} THEN parse_adaptation_field(b1)
    ELSE [b |-> b1, err |-> "none", returned |-> FALSE, ret |-> <<>>])

\* parse_transport_packet after b.bytes(3) gave hb.
transport_packet_after_header(i, hb) ==
  IF hb.err # "none" THEN [b |-> hb.b, err |-> hb.err, ret |-> <<>>]
  ELSE transport_packet_rest(hb.b, transport_packet_header(BitReader(i, hb.v)))

\* parse_transport_packet after b.byte() gave x.
transport_packet_after_sync(i, x) ==
  IF x.err # "none" THEN [b |-> x.b, err |-> x.err, ret |-> <<>>]
  ELSE IF x.v # sync_byte THEN [b |-> x.b, err |-> "NotSyncByteError", ret |-> <<>>]
  ELSE transport_packet_after_header(i, ByteReader_bytes(x.b, 3))

\* parse_transport_packet(b): [b, err, ret]
parse_transport_packet(b) == transport_packet_after_sync(b.impl, ByteReader_byte(b))

\* yield await parse_transport_packet(b), or its throw.
transport_stream_yield(p) ==
  IF p.err # "none" THEN [b |-> p.b, err |-> p.err, outcome |-> "throw", ret |-> <<>>]
  ELSE [b |-> p.b, err |-> "none", outcome |-> "yield", ret |-> p.ret]

\* The loop body after b.bytes(1) gave bs.
transport_stream_after_peek(bs) ==
  IF bs.err # "none" THEN [b |-> bs.b, err |-> bs.err, outcome |-> "throw", ret |-> <<>>]
  ELSE IF Len(bs.v) = 0 \/ bs.v[1] # sync_byte
  THEN [b |-> bs.b, err |-> "none", outcome |-> "done", ret |-> <<>>]
  ELSE transport_stream_yield(parse_transport_packet(bs.b))

\* One resumption of the generator parse_transport_stream: from the top of
\* its loop to the next yield, the break, or a throw.
\* [b, err, outcome, ret] with outcome "yield", "done" or "throw".
parse_transport_stream_step(b) == transport_stream_after_peek(ByteReader_bytes(b, 1))

-----------------------------------------------------------------------------
(* parse_PES_packet.  As in the adaptation field, the bit-level part works
   on a pair [r, optional]. *)

\* Table 2-22, the stream ids parse_PES_packet tells apart.
program_stream_map == 188

padding_stream == 190

private_stream_2 == 191

ECM_stream == 240

EMM_stream == 241

DSMCC_stream == 242

Rec_ITU_T_H_222_1_type_E == 248

program_stream_directory == 255

\* The stream ids whose packet body is opaque data.
OpaqueStreamIDs ==
  {program_stream_map, private_stream_2, ECM_stream, EMM_stream, program_stream_directory,
   DSMCC_stream, Rec_ITU_T_H_222_1_type_E}

\* Table 2-24 trick mode control values.
FastForward == 0

SlowMotion == 1

FreezeFrame == 2

FastReverse == 3

SlowReverse == 4

\* The 6 bytes in front of the body: prefix, stream_id, PES_packet_length.
pes_start(r0) ==
  LET packet_start_code_prefix == BitReader_uimsbf(r0, 24)
      stream_id == BitReader_uimsbf(packet_start_code_prefix.r, 8)
      PES_packet_length == BitReader_uimsbf(stream_id.r, 16)
  IN  [packet_start_code_prefix |-> packet_start_code_prefix.v,
       stream_id |-> stream_id.v,
       PES_packet_length |-> ToInt(PES_packet_length.v)]

\* check_constant(r, 2, 0b10), the six fields, the six flags and
\* PES_header_data_length.
pes_flags(r0) ==
  LET c == check_constant(r0, 2, 2)
      PES_scrambling_control == BitReader_bslbf(c, 2)
      PES_priority == BitReader_bslbf(PES_scrambling_control.r, 1)
      data_alignment_indicator == BitReader_bslbf(PES_priority.r, 1)
      copyright == BitReader_bslbf(data_alignment_indicator.r, 1)
      original_or_copy == BitReader_bslbf(copyright.r, 1)
      PTS_DTS_flags == BitReader_bslbf(original_or_copy.r, 2)
      ESCR_flag == BitReader_bslbf(PTS_DTS_flags.r, 1)
      ES_rate_flag == BitReader_bslbf(ESCR_flag.r, 1)
      DSM_trick_mode_flag == BitReader_bslbf(ES_rate_flag.r, 1)
      additional_copy_info_flag == BitReader_bslbf(DSM_trick_mode_flag.r, 1)
      PES_CRC_flag == BitReader_bslbf(additional_copy_info_flag.r, 1)
      PES_extension_flag == BitReader_bslbf(PES_CRC_flag.r, 1)
      PES_header_data_length == BitReader_uimsbf(PES_extension_flag.r, 8)
  IN  [optional |-> [PES_scrambling_control |-> PES_scrambling_control.v,
                     PES_priority |-> ToInt(PES_priority.v) = 1,
                     data_alignment_indicator |-> ToInt(data_alignment_indicator.v) = 1,
                     copyright |-> ToInt(copyright.v) = 1,
                     original_or_copy |-> ToInt(original_or_copy.v) = 1],
       PTS_DTS_flags |-> ToInt(PTS_DTS_flags.v),
       ESCR_flag |-> ToInt(ESCR_flag.v),
       ES_rate_flag |-> ToInt(ES_rate_flag.v),
       DSM_trick_mode_flag |-> ToInt(DSM_trick_mode_flag.v),
       additional_copy_info_flag |-> ToInt(additional_copy_info_flag.v),
       PES_CRC_flag |-> ToInt(PES_CRC_flag.v),
       PES_extension_flag |-> ToInt(PES_extension_flag.v),
       PES_header_data_length |-> ToInt(PES_header_data_length.v),
       start |-> BitReader_tell(PES_header_data_length.r),
       r |-> PES_header_data_length.r]

\* if (PTS_DTS_flags === 0b10 || PTS_DTS_flags === 0b11): the 4-bit prefix
\* 00 then the flags, and the time stamp.
pes_PTS(f) ==
  IF f.PTS_DTS_flags \in {2, 3}
  THEN LET t == timestamp(check_constant(check_constant(f.r, 2, 0), 2, f.PTS_DTS_flags))
       IN  [optional |-> Put(f.optional, "PTS", t.v), r |-> t.r]
  ELSE [optional |-> f.optional, r |-> f.r]

\* if (PTS_DTS_flags === 0b11): the prefix 0001 and the time stamp.
pes_DTS(f, s) ==
  IF f.PTS_DTS_flags = 3
  THEN LET t == timestamp(check_constant(s.r, 4, 1))
       IN  [optional |-> Put(s.optional, "DTS", t.v), r |-> t.r]
  ELSE s

pes_ESCR(f, s) ==
  IF f.ESCR_flag = 1
  THEN LET t == timestamp(reserved_bits(s.r, 2))
           e == BitReader_bslbf(t.r, 9)
       IN  [optional |-> Put(Put(s.optional, "ESCR_base", t.v), "ESCR_extension", e.v),
            r |-> marker_bit(e.r)]
  ELSE s

pes_ES_rate(f, s) ==
  IF f.ES_rate_flag = 1
  THEN LET e == BitReader_bslbf(marker_bit(s.r), 22)
       IN  [optional |-> Put(s.optional, "ES_rate", e.v), r |-> marker_bit(e.r)]
  ELSE s

\* The sub-shape the 3-bit control c selects, or the throw for a reserved one.
pes_trick_mode_shape(c, optional) ==
  CASE ToInt(c.v) \in {FastForward, FastReverse} ->
         LET field_id == BitReader_bslbf(c.r, 2)
             intra_slice_refresh == BitReader_bslbf(field_id.r, 1)
             frequency_truncation == BitReader_bslbf(intra_slice_refresh.r, 2)
         IN  [optional |-> Put(Put(Put(optional, "field_id", field_id.v),
                                   "intra_slice_refresh", ToInt(intra_slice_refresh.v) = 1),
                               "frequency_truncation", frequency_truncation.v),
              r |-> frequency_truncation.r]
    [] ToInt(c.v) \in {SlowMotion, SlowReverse} ->
         LET rep_cntrl == BitReader_bslbf(c.r, 5)
         IN  [optional |-> Put(optional, "rep_cntrl", rep_cntrl.v), r |-> rep_cntrl.r]
    [] ToInt(c.v) = FreezeFrame ->
         LET field_id == BitReader_bslbf(c.r, 2)
         IN  [optional |-> Put(optional, "field_id", field_id.v),
              r |-> reserved_bits(field_id.r, 3)]
    [] OTHER -> [optional |-> optional, r |-> Throw(c.r, "UnimplementedReserveError")]

pes_trick_mode(f, s) ==
  IF f.DSM_trick_mode_flag = 1
  THEN LET c == BitReader_bslbf(s.r, 3)
       IN  pes_trick_mode_shape(c, Put(s.optional, "trick_mode_control", c.v))
  ELSE s

pes_additional_copy_info(f, s) ==
  IF f.additional_copy_info_flag = 1
  THEN LET a == BitReader_bslbf(marker_bit(s.r), 7)
       IN  [optional |-> Put(s.optional, "additional_copy_info", a.v), r |-> a.r]
  ELSE s

pes_CRC(f, s) ==
  IF f.PES_CRC_flag = 1
  THEN LET c == BitReader_bslbf(marker_bit(s.r), 16)
       IN  [optional |-> Put(s.optional, "previous_PES_packet_CRC", c.v), r |-> c.r]
  ELSE s

\* The flags of the extension: four flags, 3 reserved bits, PES_extension_flag_2.
pes_extension_flags(r0) ==
  LET PES_private_data_flag == BitReader_bslbf(r0, 1)
      pack_header_field_flag == BitReader_bslbf(PES_private_data_flag.r, 1)
      program_packet_sequence_counter_flag == BitReader_bslbf(pack_header_field_flag.r, 1)
      P_STD_buffer_flag == BitReader_bslbf(program_packet_sequence_counter_flag.r, 1)
      PES_extension_flag_2 == BitReader_bslbf(reserved_bits(P_STD_buffer_flag.r, 3), 1)
  IN  [PES_private_data_flag |-> ToInt(PES_private_data_flag.v),
       pack_header_field_flag |-> ToInt(pack_header_field_flag.v),
       program_packet_sequence_counter_flag |-> ToInt(program_packet_sequence_counter_flag.v),
       P_STD_buffer_flag |-> ToInt(P_STD_buffer_flag.v),
       PES_extension_flag_2 |-> ToInt(PES_extension_flag_2.v),
       r |-> PES_extension_flag_2.r]

pes_private_data(e, optional) ==
  IF e.PES_private_data_flag = 1
  THEN LET d == BitReader_bytes(e.r, 16)
       IN  [optional |-> Put(optional, "PES_private_data", d.v), r |-> d.r]
  ELSE [optional |-> optional, r |-> e.r]

\* pack_field_length is read; parse_pack_header() does nothing.
pes_pack_header(e, s) ==
  IF e.pack_header_field_flag = 1
  THEN [s EXCEPT !.r = BitReader_uimsbf(s.r, 8).r]
  ELSE s

pes_sequence_counter(e, s) ==
  IF e.program_packet_sequence_counter_flag = 1
  THEN LET program_packet_sequence_counter == BitReader_uimsbf(marker_bit(s.r), 7)
           MPEG1_MPEG2_identifier ==
             BitReader_bslbf(marker_bit(program_packet_sequence_counter.r), 1)
           original_stuff_length == BitReader_uimsbf(MPEG1_MPEG2_identifier.r, 6)
       IN  [optional |->
              Put(Put(Put(s.optional, "program_packet_sequence_counter",
                          program_packet_sequence_counter.v),
                      "MPEG1_MPEG2_identifier", MPEG1_MPEG2_identifier.v),
                  "original_stuff_length", original_stuff_length.v),
            r |-> original_stuff_length.r]
  ELSE s

pes_P_STD_buffer(e, s) ==
  IF e.P_STD_buffer_flag = 1
  THEN LET scale == BitReader_bslbf(check_constant(s.r, 2, 1), 1)
           size == BitReader_bslbf(scale.r, 13)
       IN  [optional |-> Put(Put(s.optional, "P-STD_buffer_scale", scale.v),
                             "P-STD_buffer_size", size.v),
            r |-> size.r]
  ELSE s

\* stream_id_extension, or 6 reserved bits and (tref_extension_flag 0) TREF.
pes_extension_2_field(flag, optional) ==
  IF ToInt(flag.v) = 0
  THEN LET stream_id_extension == BitReader_uimsbf(flag.r, 7)
       IN  [optional |-> Put(optional, "stream_id_extension", stream_id_extension.v),
            r |-> stream_id_extension.r]
  ELSE LET tref_extension_flag == BitReader_bslbf(reserved_bits(flag.r, 6), 1)
       IN  IF ToInt(tref_extension_flag.v) = 0
           THEN LET t == timestamp(reserved_bits(tref_extension_flag.r, 4))
                IN  [optional |-> Put(optional, "TREF", t.v), r |-> t.r]
           ELSE [optional |-> optional, r |-> tref_extension_flag.r]

\* reserved_bits(r, 8 * PES_extension_field_length - (r.tell() - _start))
pes_extension_2_end(PES_extension_field_length, s) ==
  [s EXCEPT !.r = reserved_bits(s.r,
      8 * ToInt(PES_extension_field_length.v)
        - (BitReader_tell(s.r) - BitReader_tell(PES_extension_field_length.r)))]

pes_extension_2_fields(PES_extension_field_length, optional) ==
  pes_extension_2_end(PES_extension_field_length,
    pes_extension_2_field(BitReader_bslbf(PES_extension_field_length.r, 1), optional))

pes_extension_2(e, s) ==
  IF e.PES_extension_flag_2 = 1
  THEN pes_extension_2_fields(BitReader_uimsbf(marker_bit(s.r), 7), s.optional)
  ELSE s

pes_extension_fields(e, optional) ==
  pes_extension_2(e,
    pes_P_STD_buffer(e,
      pes_sequence_counter(e,
        pes_pack_header(e,
          pes_private_data(e, optional)))))

pes_extension(f, s) ==
  IF f.PES_extension_flag = 1
  THEN pes_extension_fields(pes_extension_flags(s.r), s.optional)
  ELSE s

\* PES_packet_data = r.bytes(PES_packet_length - (r.tell() >>> 3))
pes_packet_data(r, optional, PES_packet_length) ==
  LET d == BitReader_bytes(r, PES_packet_length - (BitReader_tell(r) \div 8))
  IN  [optional |-> Put(optional, "PES_packet_data", d.v), r |-> d.r]

\* N1, the throw for N1 > 32, the stuffing bytes and the packet data.
pes_stuffing(f, s, PES_packet_length) ==
  IF f.PES_header_data_length - ((BitReader_tell(s.r) - f.start) \div 8) > 32
  THEN [optional |-> s.optional, r |-> Throw(s.r, "MalformedDataError")]
  ELSE pes_packet_data(
         stuffing_bytes(s.r,
           f.PES_header_data_length - ((BitReader_tell(s.r) - f.start) \div 8)),
         s.optional, PES_packet_length)

\* The structured header: the gated fields in the order of the code.
pes_fields(f, PES_packet_length) ==
  pes_stuffing(f,
    pes_extension(f,
      pes_CRC(f,
        pes_additional_copy_info(f,
          pes_trick_mode(f,
            pes_ES_rate(f,
              pes_ESCR(f,
                pes_DTS(f, pes_PTS(f)))))))),
    PES_packet_length)

\* The body by the class of stream_id: opaque data, padding, structured header.
pes_body(r0, p) ==
  IF ToInt(p.stream_id) \in OpaqueStreamIDs
  THEN LET d == BitReader_bytes(r0, p.PES_packet_length)
       IN  [optional |-> [PES_packet_data |-> d.v], r |-> d.r]
  ELSE IF ToInt(p.stream_id) = padding_stream
  THEN [optional |-> <<>>, r |-> padding_bytes(r0, p.PES_packet_length)]
  ELSE pes_fields(pes_flags(r0), p.PES_packet_length)

\* return { packet_start_code_prefix, stream_id, ...optional }, or the throw.
pes_return(b, p, d) ==
  IF d.r.err # "none" THEN [b |-> b, err |-> d.r.err, ret |-> <<>>]
  ELSE [b |-> b, err |-> "none",
        ret |-> Spread([packet_start_code_prefix |-> p.packet_start_code_prefix,
                        stream_id |-> p.stream_id],
                       d.optional)]

\* parse_PES_packet after b.bytes(PES_packet_length) gave body.
pes_after_body(i, p, body) ==
  IF body.err # "none" THEN [b |-> body.b, err |-> body.err, ret |-> <<>>]
  ELSE pes_return(body.b, p, pes_body(BitReader(i, body.v), p))

\* r = new BitReader(await b.bytes(PES_packet_length))
pes_read_body(i, b1, p) == pes_after_body(i, p, ByteReader_bytes(b1, p.PES_packet_length))

\* parse_PES_packet after b.bytes(6) gave hb.
pes_after_header(i, hb) ==
  IF hb.err # "none" THEN [b |-> hb.b, err |-> hb.err, ret |-> <<>>]
  ELSE pes_read_body(i, hb.b, pes_start(BitReader(i, hb.v)))

\* parse_PES_packet(b): [b, err, ret]
parse_PES_packet(b) == pes_after_header(b.impl, ByteReader_bytes(b, 6))

-----------------------------------------------------------------------------
(* The reader held in the variables, and the calls made on it *)

\* The ByteReader the variables describe.
TheReader ==
  [impl |-> impl, src |-> src, srcDefined |-> srcDefined, buffer |-> buffer,
   offset |-> offset]

\* The variables take the fields of reader b.
SetReader(b) ==
  /\ src' = b.src
  /\ srcDefined' = b.srcDefined
  /\ buffer' = b.buffer
  /\ offset' = b.offset
  /\ UNCHANGED <<impl, stream, streamVars>>

\* Number of stream bytes behind the cursor of b: the bytes the source has
\* delivered minus the unread rest of the current chunk.
PosOf(b) == Len(stream) - Len(Concat(b.src)) - (Len(b.buffer) - b.offset)

Pos == PosOf(TheReader)

\* Every way of cutting s into at most k chunks, empty chunks included.
RECURSIVE Splits(_, _)
Splits(s, k) ==
  IF k = 0 THEN (IF s = <<>> THEN {<<>>} ELSE {})
  ELSE (IF s = <<>> THEN {<<>>} ELSE {})
       \cup UNION {{<<SubSeq(s, 1, i)>> \o rest :
                      rest \in Splits(SubSeq(s, i + 1, Len(s)), k - 1)} : i \in 0..Len(s)}

\* Longest stream and most chunks of the ByteReader specification.
MaxBytes == 4

MaxChunks == 3

\* Largest request of a fill or bytes call.
MaxFill == 4

NoCall == [op |-> "none", n |-> 0, pos |-> 0]

\* A fresh ByteReader over some chunking of the bytes 1..N.
InitByteReader ==
  /\ impl \in Impls
  /\ stream \in {[i \in 1..n |-> i] : n \in 0..MaxBytes}
  /\ src \in Splits(stream, MaxChunks)
  /\ srcDefined = TRUE
  /\ buffer = <<>>
  /\ offset = 0
  /\ pc = "ready"
  /\ call = NoCall
  /\ ret = <<>>
  /\ err = "none"
  /\ yielded = <<>>
  /\ NoStream

\* await b.fill(out) with a caller's buffer of n bytes.
Fill_call(n) ==
  LET r == ByteReader_fill(TheReader, Zeros(n))
  IN  /\ pc = "ready"
      /\ SetReader(r.b)
      /\ call' = [op |-> "fill", n |-> n, pos |-> Pos]
      /\ ret' = r.v
      /\ err' = r.err
      /\ UNCHANGED <<pc, yielded>>

\* await b.bytes(n).
Bytes_call(n) ==
  LET r == ByteReader_bytes(TheReader, n)
  IN  /\ pc = "ready"
      /\ SetReader(r.b)
      /\ call' = [op |-> "bytes", n |-> n, pos |-> Pos]
      /\ ret' = r.v
      /\ err' = r.err
      /\ UNCHANGED <<pc, yielded>>

\* await b.byte().  The offset of the reader.ts revision can grow without
\* limit once it is past the chunk; the guard caps it.
Byte_call ==
  LET r == ByteReader_byte(TheReader)
  IN  /\ pc = "ready"
      /\ offset <= MaxBytes
      /\ SetReader(r.b)
      /\ call' = [op |-> "byte", n |-> 1, pos |-> Pos]
      /\ ret' = <<r.v>>
      /\ err' = r.err
      /\ UNCHANGED <<pc, yielded>>

\* await b.eof().
Eof_call ==
  LET r == ByteReader_eof(TheReader)
  IN  /\ pc = "ready"
      /\ SetReader(r.b)
      /\ call' = [op |-> "eof", n |-> 0, pos |-> Pos]
      /\ ret' = <<r.v>>
      /\ err' = "none"
      /\ UNCHANGED <<pc, yielded>>

NextByteReader ==
  \/ \E n \in 0..MaxFill : Fill_call(n)
  \/ \E n \in 0..MaxFill : Bytes_call(n)
  \/ Byte_call
  \/ Eof_call

SpecByteReader == InitByteReader /\ [][NextByteReader]_vars

-----------------------------------------------------------------------------
(* parse_adaptation_field called on a ByteReader positioned at the length
   byte of an adaptation field. *)

\* Longest declared adaptation_field_length and most chunks tried.
MaxAFLength == 10

MaxAFChunks == 2

\* n bytes 0xFF, and the same with byte i replaced by 0.
Stuffing(n) == [i \in 1..n |-> 255]

StuffingBut(n, i) == [j \in 1..n |-> IF j = i THEN 0 ELSE 255]

Stuffings(n) == {Stuffing(n)} \cup {StuffingBut(n, i) : i \in 1..n}

\* Flag bytes with the five presence flags clear: only indicator bits.
IndicatorFlags == {0, 128, 96}

\* A PCR of 6 bytes whose 6 reserved bits are all 1, and one whose are all 0.
PCRBytes == {<<0, 0, 0, 1, 126, 5>>, <<0, 0, 0, 1, 0, 5>>}

\* Adaptation fields with an extension of declared length 1 or 2: the byte of
\* its four flags and four reserved bits, with af_descriptor_not_present_flag
\* 0 or 1 and reserved bits all 1 or not, and a further reserved byte.
ExtensionFields ==
  {<<3, 1, 1, x, 255>> : x \in {15, 31, 16, 30}}
    \cup {<<4, 1, 2, 31, y, 255>> : y \in {255, 0}}

\* Adaptation fields: the length byte L, the flags byte, the flag-gated
\* sub-fields and L minus those bytes of stuffing (one byte possibly not 0xFF);
\* also L = 0 and fields cut short by the end of the source.
AdaptationFields ==
  LET plain == UNION {{<<L, f>> \o st : f \in IndicatorFlags, st \in Stuffings(L - 1)} :
                        L \in 1..MaxAFLength}
      pcr   == UNION {{<<L, 16>> \o p \o st : p \in PCRBytes, st \in Stuffings(L - 7)} :
                        L \in 7..MaxAFLength}
      splice == UNION {{<<L, 4, c>> \o st : c \in {1, 255}, st \in {Stuffing(L - 2)}} :
                        L \in 2..MaxAFLength}
      cut   == {<<L, 0>> \o Stuffing(L - 2) : L \in 2..MaxAFLength}
  IN  {<<0>>, <<0, 255>>} \cup plain \cup pcr \cup splice \cup cut \cup ExtensionFields

InitAdaptation ==
  /\ impl \in Impls
  /\ stream \in AdaptationFields
  /\ src \in Splits(stream, MaxAFChunks)
  /\ srcDefined = TRUE
  /\ buffer = <<>>
  /\ offset = 0
  /\ pc = "ready"
  /\ call = NoCall
  /\ ret = <<>>
  /\ err = "none"
  /\ yielded = <<>>
  /\ NoStream

\* The caller's variables after a call of operation op returned r.
Returned(op, r) ==
  /\ SetReader(r.b)
  /\ pc' = "returned"
  /\ call' = [op |-> op, n |-> 0, pos |-> Pos]
  /\ ret' = r.ret
  /\ err' = r.err
  /\ UNCHANGED yielded

\* await parse_adaptation_field(b)
ParseAdaptationField_call ==
  /\ pc = "ready"
  /\ Returned("parse_adaptation_field", parse_adaptation_field(TheReader))

NextAdaptation == ParseAdaptationField_call

SpecAdaptation == InitAdaptation /\ [][NextAdaptation]_vars

-----------------------------------------------------------------------------
(* Transport packets as inputs *)

\* A transport packet is 188 bytes: the sync byte, 3 header bytes, 184 more.
PacketSize == 188

\* First header bytes tried: payload_unit_start with PID high bits 0, the
\* value that equals the sync byte (0x47), and 0.
HeaderFirstBytes == {64, 71, 0}

\* Payload-only packets (adaptation_field_control = 01): PID low byte 17,
\* continuity counter cc, 184 payload bytes x.
PayloadPackets ==
  {<<sync_byte, h, 17, 16 + cc>> \o [i \in 1..184 |-> x] :
     h \in HeaderFirstBytes, cc \in {0, 9}, x \in {0, 71}}

\* Packets with an adaptation field and payload (11): length byte 0 and 183
\* payload bytes; length 1 (flags only) and 182 payload bytes.
AdaptationPayloadPackets ==
  {<<sync_byte, h, 17, 48, 0>> \o [i \in 1..183 |-> 7] : h \in HeaderFirstBytes}
  \cup {<<sync_byte, h, 17, 48, 1, 0>> \o [i \in 1..182 |-> 7] : h \in HeaderFirstBytes}

\* Packets with an adaptation field only (10): length 183, flags, stuffing.
AdaptationOnlyPackets ==
  {<<sync_byte, h, 17, 32, 183, 0>> \o Stuffing(182) : h \in HeaderFirstBytes}

WellFormedPackets == PayloadPackets \cup AdaptationPayloadPackets \cup AdaptationOnlyPackets

\* s cut into chunks of n bytes (the last one shorter).
ChunksOf(s, n) ==
  [i \in 1..((Len(s) + n - 1) \div n) |-> SubSeq(s, (i - 1) * n + 1, Min(i * n, Len(s)))]

\* Chunk sizes tried for packet streams: chunks that cut the header from the
\* payload, chunks that cut the payload, one packet per chunk, and the whole
\* stream in one chunk.
ChunkSizes == {47, 100, 188, 1000}

\* Well-formed 188-byte packet at bytes at+1 .. at+188 of s.
IsPacketAt(s, at) ==
  Len(s) >= at + PacketSize /\ SubSeq(s, at + 1, at + PacketSize) \in WellFormedPackets

\* PID of the packet at bytes at+1 .. of s: 13 bits of header bytes 1 and 2.
PIDAt(s, at) == (s[at + 2] % 32) * 256 + s[at + 3]

-----------------------------------------------------------------------------
(* parse_transport_packet called directly *)

\* What may follow the packet in the source: nothing, or the start of the
\* next packet.
PacketTails == {<<>>, <<sync_byte, 64>>}

InitPacket ==
  /\ impl \in Impls
  /\ stream \in {p \o t : p \in WellFormedPackets, t \in PacketTails}
  /\ src \in {ChunksOf(stream, n) : n \in ChunkSizes}
  /\ srcDefined = TRUE
  /\ buffer = <<>>
  /\ offset = 0
  /\ pc = "ready"
  /\ call = NoCall
  /\ ret = <<>>
  /\ err = "none"
  /\ yielded = <<>>
  /\ NoStream

\* await parse_transport_packet(b)
ParseTransportPacket_call ==
  /\ pc = "ready"
  /\ Returned("parse_transport_packet", parse_transport_packet(TheReader))

NextPacket == ParseTransportPacket_call

SpecPacket == InitPacket /\ [][NextPacket]_vars

-----------------------------------------------------------------------------
(* parse_transport_stream driven by a consumer *)

\* Most packets in a stream.
MaxPackets == 2

\* What follows the last whole packet: nothing, a packet cut short (1, 2 or
\* 100 bytes of it), or a byte that is not the sync byte.
StreamTails ==
  {<<>>, <<0>>}
  \cup {SubSeq(p, 1, n) : p \in {<<sync_byte, h, 17, 16>> \o Zeros(184) : h \in {64, 71}},
                          n \in {1, 2, 100}}

\* The packets streams are made of.
StreamPackets ==
  {p \in WellFormedPackets : p[2] \in {64, 71} /\ p[4] \in {16, 32}}

RECURSIVE PacketRuns(_)
PacketRuns(k) ==
  IF k = 0 THEN {<<>>}
  ELSE {p \o rest : p \in StreamPackets, rest \in PacketRuns(k - 1)}

InitStream ==
  /\ impl \in Impls
  /\ stream \in {ps \o t : ps \in UNION {PacketRuns(k) : k \in 0..MaxPackets}, t \in StreamTails}
  /\ src \in {ChunksOf(stream, n) : n \in ChunkSizes}
  /\ srcDefined = TRUE
  /\ buffer = <<>>
  /\ offset = 0
  /\ pc = "ready"
  /\ call = NoCall
  /\ ret = <<>>
  /\ err = "none"
  /\ yielded = <<>>
  /\ NoStream

\* The consumer's variables after the generator ran up to r.
Resumed(r) ==
  /\ SetReader(r.b)
  /\ pc' = CASE r.outcome = "yield" -> "ready"
             [] r.outcome = "done" -> "done"
             [] OTHER -> "failed"
  /\ call' = [op |-> "parse_transport_stream", n |-> Len(yielded), pos |-> Pos]
  /\ ret' = r.ret
  /\ err' = r.err
  /\ yielded' = IF r.outcome = "yield" THEN Append(yielded, r.ret) ELSE yielded

\* The consumer asks the generator for its next element.
StreamNext ==
  /\ pc = "ready"
  /\ Resumed(parse_transport_stream_step(TheReader))

NextStream == StreamNext

SpecStream == InitStream /\ [][NextStream]_vars

\* The number of whole well-formed packets the stream starts with.
RECURSIVE WholePackets(_, _)
WholePackets(s, at) == IF IsPacketAt(s, at) THEN 1 + WholePackets(s, at + PacketSize) ELSE 0

-----------------------------------------------------------------------------
(* parse_PES_packet called on a ByteReader positioned at the start code *)

\* Longest body of a padding packet.
MaxPadding == 3

\* A stream id of the structured-header class: video stream number 0.
VideoStreamID == 224

\* Padding packets: the declared length L and L body bytes (one possibly not
\* 0xFF).
PaddingPackets ==
  UNION {{<<0, 0, 1, padding_stream, 0, L>> \o st : st \in Stuffings(L)} : L \in 0..MaxPadding}

\* The 5 bytes of a time stamp: 4 bits prefix, 3 bits h, marker k1, 15 bits m,
\* marker k2, 15 bits l, marker k3.
TimestampBytes(prefix, h, k1, m, k2, l, k3) ==
  <<prefix * 16 + h * 2 + k1,
    (m * 2 + k2) \div 256, (m * 2 + k2) % 256,
    (l * 2 + k3) \div 256, (l * 2 + k3) % 256>>

\* The 15-bit parts tried: the ends of the range, 1 and alternating bits.
TimestampParts == {0, 1, 21845, 32767}

\* <<prefix, k1, k2, k3>>: the well-formed layout, wrong prefixes, and each
\* marker bit 0 in turn.
TimestampLayouts ==
  {<<2, 1, 1, 1>>, <<3, 1, 1, 1>>, <<0, 1, 1, 1>>, <<2, 0, 1, 1>>, <<2, 1, 0, 1>>, <<2, 1, 1, 0>>}

\* Structured-header packets carrying only a PTS (PTS_DTS_flags = 10,
\* PES_header_data_length 5), followed by the payload d.
PTSOnlyPackets ==
  {<<0, 0, 1, VideoStreamID, 0, 8 + Len(d), 128, 128, 5>>
     \o TimestampBytes(y[1], h, y[2], m, y[3], l, y[4]) \o d :
     h \in 0..7, m \in TimestampParts, l \in TimestampParts, y \in TimestampLayouts,
     d \in {<<>>, <<9>>}}

\* PTS and DTS (PTS_DTS_flags = 11): PTS prefix 0011 as the code wants and
\* 0010; DTS prefix 0001.
PTSDTSPackets ==
  {<<0, 0, 1, VideoStreamID, 0, 13, 128, 192, 10>>
     \o TimestampBytes(x, 1, 1, 2, 1, 3, 1) \o TimestampBytes(1, 4, 1, 5, 1, 6, 1) :
     x \in {2, 3}}

\* DSM trick mode with each 3-bit control value, the other 5 bits 1.
TrickModePackets ==
  {<<0, 0, 1, VideoStreamID, 0, 4, 128, 8, 1, c * 32 + 31>> : c \in 0..7}

\* No gated field, n stuffing bytes and one payload byte; and a header that
\* declares 33 bytes of header data.
StuffedPackets ==
  UNION {{<<0, 0, 1, VideoStreamID, 0, 4 + n, 128, 0, n>> \o st \o <<9>> : st \in Stuffings(n)} :
           n \in {0, 2}}
  \cup {<<0, 0, 1, VideoStreamID, 0, 4, 128, 0, 33, 255>>}

\* Opaque-data packets.
OpaquePackets ==
  {<<0, 0, 1, id, 0, 2, 5, 6>> : id \in {program_stream_map, private_stream_2}}

\* Packets whose body is one byte shorter than declared.
ShortPackets ==
  {<<0, 0, 1, id, 0, 2, 255>> : id \in {padding_stream, private_stream_2, VideoStreamID}}

\* Stuffing at its limit and after a gated field: 32 stuffing bytes with no
\* gated field, and a PTS followed by 2 stuffing bytes (header data length 7).
LongStuffedPackets ==
  {<<0, 0, 1, VideoStreamID, 0, 36, 128, 0, 32>> \o [i \in 1..32 |-> 255] \o <<9>>}
  \cup {<<0, 0, 1, VideoStreamID, 0, 11, 128, 128, 7>>
          \o TimestampBytes(2, 1, 1, 2, 1, 3, 1) \o st \o <<9>> : st \in Stuffings(2)}

\* DSM trick mode with each control value and several patterns of the other
\* 5 bits, followed by one payload byte.
TrickModeShapePackets ==
  {<<0, 0, 1, VideoStreamID, 0, 5, 128, 8, 1, c * 32 + low, 9>> :
     c \in 0..7, low \in {0, 7, 10, 21, 31}}

PESPackets ==
  PaddingPackets \cup PTSOnlyPackets \cup PTSDTSPackets \cup TrickModePackets
    \cup TrickModeShapePackets
    \cup StuffedPackets \cup LongStuffedPackets \cup OpaquePackets \cup ShortPackets

\* Chunk sizes tried for PES packets: a cut inside the 6-byte header, at its
\* end, inside the body, and the whole packet in one chunk.
PESChunkSizes == {4, 6, 9, 1000}

InitPES ==
  /\ impl \in Impls
  /\ stream \in PESPackets
  /\ src \in {ChunksOf(stream, n) : n \in PESChunkSizes}
  /\ srcDefined = TRUE
  /\ buffer = <<>>
  /\ offset = 0
  /\ pc = "ready"
  /\ call = NoCall
  /\ ret = <<>>
  /\ err = "none"
  /\ yielded = <<>>
  /\ NoStream

\* await parse_PES_packet(b)
ParsePESPacket_call ==
  /\ pc = "ready"
  /\ Returned("parse_PES_packet", parse_PES_packet(TheReader))

NextPES == ParsePESPacket_call

SpecPES == InitPES /\ [][NextPES]_vars

\* The declared PES_packet_length of the packet the stream starts with.
DeclaredLength(s) == s[5] * 256 + s[6]

\* s is one whole PES packet of the padding stream.
IsPaddingPacket(s) ==
  Len(s) >= 6 /\ s[4] = padding_stream /\ Len(s) = 6 + DeclaredLength(s)

\* s is one whole structured-header PES packet with PTS_DTS_flags = 10, no
\* other flag, and exactly the 5 bytes of the PTS as header data.
IsPTSOnlyPacket(s) ==
  /\ Len(s) >= 14
  /\ Len(s) = 6 + DeclaredLength(s)
  /\ s[4] = VideoStreamID
  /\ s[7] \div 64 = 2
  /\ s[8] = 128
  /\ s[9] = 5

\* The parts of the time stamp at bytes at+1 .. at+5 of s.
PrefixAt(s, at) == s[at + 1] \div 16

HighAt(s, at) == (s[at + 1] \div 2) % 8

MidAt(s, at) == (s[at + 2] * 256 + s[at + 3]) \div 2

LowAt(s, at) == (s[at + 4] * 256 + s[at + 5]) \div 2

MarkersAt(s, at) == <<s[at + 1] % 2, s[at + 3] % 2, s[at + 5] % 2>>

-----------------------------------------------------------------------------
(* The ByteReader with all of its operations.  unshift puts bytes in front of
   the cursor, so here stream, the bytes the reader is to deliver in order,
   gets the unshifted bytes inserted at the cursor. *)

\* The bytes not yet delivered: the unread rest of the chunk and the chunks
\* still in the source.
Pending == subarray(buffer, offset, Len(buffer)) \o Concat(src)

\* Longest stream and most chunks at the start, and the longest stream once
\* unshifted bytes are counted in.
MaxCursorBytes == 3

MaxCursorChunks == 2

MaxStream == 4

\* Largest request of a peek_bytes call.
MaxPeek == 3

\* What is unshifted: nothing or a fresh byte (and what the last bytes call
\* returned, see UnshiftLast_call).
UnshiftArgs == {<<>>, <<9>>}

\* A fresh ByteReader over some chunking of the bytes 1..N.
InitCursor ==
  /\ impl \in Impls
  /\ stream \in {[i \in 1..n |-> i] : n \in 0..MaxCursorBytes}
  /\ src \in Splits(stream, MaxCursorChunks)
  /\ srcDefined = TRUE
  /\ buffer = <<>>
  /\ offset = 0
  /\ pc = "ready"
  /\ call = NoCall
  /\ ret = <<>>
  /\ err = "none"
  /\ yielded = <<>>
  /\ NoStream

\* await b.peek_bytes(n); only part_001 has the method.
PeekBytes_call(n) ==
  LET r == ByteReader_peek_bytes(TheReader, n)
  IN  /\ pc = "ready"
      /\ impl = "part_001"
      /\ SetReader(r.b)
      /\ call' = [op |-> "peek_bytes", n |-> n, pos |-> Pos]
      /\ ret' = r.v
      /\ err' = "none"
      /\ UNCHANGED <<pc, yielded>>

\* b.peek_buffer(); only part_001 has the method.
PeekBuffer_call ==
  LET r == ByteReader_peek_buffer(TheReader)
  IN  /\ pc = "ready"
      /\ impl = "part_001"
      /\ SetReader(r.b)
      /\ call' = [op |-> "peek_buffer", n |-> 0, pos |-> Pos]
      /\ ret' = r.v
      /\ err' = "none"
      /\ UNCHANGED <<pc, yielded>>

\* b.unshift(x) came back: the reader keeps the fields of r.b and stream has x
\* at the cursor.
Unshifted(x, r) ==
  LET at == Min(IF Pos < 0 THEN 0 ELSE Pos, Len(stream))
  IN  /\ src' = r.b.src
      /\ srcDefined' = r.b.srcDefined
      /\ buffer' = r.b.buffer
      /\ offset' = r.b.offset
      /\ stream' = IF r.err = "none"
                   THEN SubSeq(stream, 1, at) \o x \o SubSeq(stream, at + 1, Len(stream))
                   ELSE stream
      /\ call' = [op |-> "unshift", n |-> Len(x), pos |-> Pos, arg |-> x]
      /\ ret' = <<>>
      /\ err' = r.err
      /\ UNCHANGED <<impl, pc, yielded, streamVars>>

\* b.unshift(x)
Unshift_call(x) ==
  /\ pc = "ready"
  /\ Len(stream) + Len(x) <= MaxStream
  /\ Unshifted(x, ByteReader_unshift(TheReader, x))

\* x = await b.bytes(n); b.unshift(x): the second of the two calls.
UnshiftLast_call ==
  /\ pc = "ready"
  /\ call.op = "bytes"
  /\ err = "none"
  /\ Len(stream) + Len(ret) <= MaxStream
  /\ Unshifted(ret, ByteReader_unshift(TheReader, ret))

NextCursor ==
  \/ \E n \in 0..MaxFill : Fill_call(n)
  \/ \E n \in 0..MaxFill : Bytes_call(n)
  \/ Byte_call
  \/ Eof_call
  \/ \E n \in 0..MaxPeek : PeekBytes_call(n)
  \/ PeekBuffer_call
  \/ \E x \in UnshiftArgs : Unshift_call(x)
  \/ UnshiftLast_call

SpecCursor == InitCursor /\ [][NextCursor]_vars

-----------------------------------------------------------------------------
(* A BitReader held in the variables: buffer is its buffer and offset its bit
   offset; stream is the same buffer and there is no source. *)

TheBitReader == [impl |-> impl, buffer |-> buffer, offset |-> offset, err |-> "none"]

\* Longest buffer of the BitReader specification, in bytes.
MaxBitBytes == 7

\* Largest number of bits one call asks for.
MaxBits == 54

\* Largest number of bytes one BitReader.bytes call asks for.
MaxBitReaderBytes == 3

\* The buffers: the first bytes of one pattern that starts with the bytes
\* 11111111, 00000001 and 10000000.
BitPattern == <<255, 1, 128, 85, 170, 15, 240, 129, 126>>

BitBuffers == {SubSeq(BitPattern, 1, n) : n \in {0, 1, 3, MaxBitBytes}}

\* The bit counts of the calls: every count up to MaxBits for uimsbf, a few
\* for the others.
BitCounts == 0..MaxBits

SomeBitCounts == {0, 1, 2, 8, 13, MaxBits - 1, MaxBits}

InitBitReader ==
  /\ impl \in Impls
  /\ stream \in BitBuffers
  /\ buffer = stream
  /\ src = <<>>
  /\ srcDefined = FALSE
  /\ offset = 0
  /\ pc = "ready"
  /\ call = NoCall
  /\ ret = <<>>
  /\ err = "none"
  /\ yielded = <<>>
  /\ NoStream

\* The call op(n) came back with x = [r, v]: the reader keeps x.r, the caller
\* gets x.v or the exception.
BitReturned(op, n, x) ==
  /\ offset' = BitReader_tell(x.r)
  /\ err' = x.r.err
  /\ ret' = IF x.r.err = "none" THEN <<x.v>> ELSE <<>>
  /\ call' = [op |-> op, n |-> n, pos |-> offset]
  /\ UNCHANGED <<impl, stream, src, srcDefined, buffer, pc, yielded, streamVars>>

\* r.uimsbf(n)
Uimsbf_call(n) ==
  /\ pc = "ready"
  /\ BitReturned("uimsbf", n, BitReader_uimsbf(TheBitReader, n))

\* r.bslbf(n)
Bslbf_call(n) ==
  /\ pc = "ready"
  /\ BitReturned("bslbf", n, BitReader_bslbf(TheBitReader, n))

\* r.tcimsbf(n)
Tcimsbf_call(n) ==
  /\ pc = "ready"
  /\ BitReturned("tcimsbf", n, BitReader_tcimsbf(TheBitReader, n))

\* r.bytes(n)
BitBytes_call(n) ==
  /\ pc = "ready"
  /\ BitReturned("BitReader.bytes", n, BitReader_bytes(TheBitReader, n))

NextBitReader ==
  \/ \E n \in BitCounts : Uimsbf_call(n)
  \/ \E n \in SomeBitCounts : Bslbf_call(n)
  \/ \E n \in SomeBitCounts : Tcimsbf_call(n)
  \/ \E n \in 0..MaxBitReaderBytes : BitBytes_call(n)

SpecBitReader == InitBitReader /\ [][NextBitReader]_vars

\* The bits at offsets from .. from + count - 1 of buf read as one unsigned
\* number, for count <= 30: the two halves, the first one shifted.
RECURSIVE BitsValue(_, _, _)
BitsValue(buf, from, count) ==
  IF count <= 0 THEN 0
  ELSE IF count = 1 THEN (buf[(from \div 8) + 1] \div (2^(7 - (from % 8)))) % 2
  ELSE LET h == count \div 2
       IN  BitsValue(buf, from, h) * (2^(count - h)) + BitsValue(buf, from + h, count - h)

\* The same for count <= 53, as a number <<hi, lo>>.
Unsigned(buf, from, count) ==
  IF count <= 30 THEN <<0, BitsValue(buf, from, count)>>
  ELSE <<BitsValue(buf, from, count - 30), BitsValue(buf, from + count - 30, 30)>>

\* 2^count as a number <<hi, lo>>, for count <= 53.
PowerOfTwo(count) == IF count < 30 THEN <<0, 2^count>> ELSE <<2^(count - 30), 0>>

\* a - b on numbers <<hi, lo>>.
Minus(a, b) ==
  IF a[2] >= b[2] THEN <<a[1] - b[1], a[2] - b[2]>>
  ELSE <<a[1] - b[1] - 1, a[2] - b[2] + Radix>>

\* The two's complement reading of the same bits: v when the first bit is 0,
\* v - 2^count when it is 1.
TwosComplement(buf, from, count) ==
  IF BitsValue(buf, from, 1) = 0 THEN Unsigned(buf, from, count)
  ELSE Minus(Unsigned(buf, from, count), PowerOfTwo(count))

-----------------------------------------------------------------------------
(* Stream, the queue between a producer that pushes values and a consumer
   that awaits next().  The class is the same in both revisions.  A pending
   next() call is known by its number, the index of its entry in results;
   resolving its promise writes the entry. *)

done_result == [done |-> TRUE, value |-> undefined]

TheStream ==
  [ended |-> ended, push_queue |-> push_queue, next_queue |-> next_queue,
   results |-> results]

\* The variables take the fields of Stream q.
SetStream(q) ==
  /\ ended' = q.ended
  /\ push_queue' = q.push_queue
  /\ next_queue' = q.next_queue
  /\ results' = q.results

\* A push that always queues the value, also when a next() call is waiting.
Stream_push_queues_always(q, value) ==
  IF q.ended THEN [q |-> q, v |-> FALSE, err |-> "Error"]
  ELSE [q |-> [q EXCEPT !.push_queue = Append(@, value)], v |-> FALSE, err |-> "none"]

\* Stream.push: a throw once ended; the value joins the values already
\* queued; or it goes to the first pending next() call; or, with none
\* pending, it is queued.
Stream_push(q, value) ==
  IF q.ended THEN [q |-> q, v |-> FALSE, err |-> "Error"]
  ELSE IF Len(q.push_queue) > 0
  THEN [q |-> [q EXCEPT !.push_queue = Append(@, value)], v |-> FALSE, err |-> "none"]
  ELSE IF q.next_queue = <<>>
  THEN [q |-> [q EXCEPT !.push_queue = Append(@, value)], v |-> FALSE, err |-> "none"]
  ELSE [q |-> [q EXCEPT !.next_queue = Tail(@),
                        !.results[Head(q.next_queue)] = <<[done |-> FALSE, value |-> value]>>],
        v |-> TRUE, err |-> "none"]

\* Stream.end: every pending next() call gets done_result.
Stream_end(q) ==
  [q EXCEPT !.ended = TRUE,
            !.next_queue = <<>>,
            !.results = [i \in 1..Len(q.results) |->
                           IF \E k \in 1..Len(q.next_queue) : q.next_queue[k] = i
                           THEN <<done_result>> ELSE q.results[i]]]

\* Stream.next: the first queued value, or done_result once ended, or a
\* promise whose resolve function joins next_queue.
Stream_next(q) ==
  IF q.push_queue # <<>>
  THEN [q EXCEPT !.push_queue = Tail(@),
                 !.results = Append(@, <<[done |-> FALSE, value |-> Head(q.push_queue)]>>)]
  ELSE IF q.ended THEN [q EXCEPT !.results = Append(@, <<done_result>>)]
  ELSE [q EXCEPT !.next_queue = Append(@, Len(q.results) + 1),
                 !.results = Append(@, <<>>)]

\* Most values pushed and most next() calls made.
MaxPushes == 3

MaxNexts == 5

InitQueue ==
  /\ impl \in Impls
  /\ stream = <<>>
  /\ src = <<>>
  /\ srcDefined = TRUE
  /\ buffer = <<>>
  /\ offset = 0
  /\ pc = "ready"
  /\ call = NoCall
  /\ ret = <<>>
  /\ err = "none"
  /\ yielded = <<>>
  /\ NoStream

\* The producer calls push with the next value: 1, 2, 3, ...
Push_call ==
  LET r == Stream_push(TheStream, Len(pushed) + 1)
  IN  /\ Len(pushed) < MaxPushes
      /\ SetStream(r.q)
      /\ pushed' = IF r.err = "none" THEN Append(pushed, Len(pushed) + 1) ELSE pushed
      /\ call' = [op |-> "push", n |-> Len(pushed) + 1, pos |-> 0]
      /\ ret' = IF r.err = "none" THEN <<r.v>> ELSE <<>>
      /\ err' = r.err
      /\ UNCHANGED <<impl, stream, src, srcDefined, buffer, offset, pc, yielded>>

\* The producer calls end.
End_call ==
  /\ SetStream(Stream_end(TheStream))
  /\ call' = [op |-> "end", n |-> 0, pos |-> 0]
  /\ ret' = <<>>
  /\ err' = "none"
  /\ UNCHANGED <<impl, stream, src, srcDefined, buffer, offset, pc, yielded, pushed>>

\* The consumer calls next; call.n is the number of the call.
Next_call ==
  /\ Len(results) < MaxNexts
  /\ SetStream(Stream_next(TheStream))
  /\ call' = [op |-> "next", n |-> Len(results) + 1, pos |-> 0]
  /\ ret' = <<>>
  /\ err' = "none"
  /\ UNCHANGED <<impl, stream, src, srcDefined, buffer, offset, pc, yielded, pushed>>

NextQueue == Push_call \/ End_call \/ Next_call

SpecQueue == InitQueue /\ [][NextQueue]_vars

\* The values the next() calls have got so far, in call order.
RECURSIVE ValuesOf(_)
ValuesOf(rs) ==
  IF rs = <<>> THEN <<>>
  ELSE IF rs[1] # <<>> /\ rs[1] # <<done_result>>
       THEN <<rs[1][1].value>> \o ValuesOf(Tail(rs))
  ELSE ValuesOf(Tail(rs))

-----------------------------------------------------------------------------
(* C4: fill(out) and bytes(n) copy exactly the next len(out) bytes of the
   concatenation of the chunks, however the bytes are cut into chunks, and
   advance the cursor by exactly len(out).  Stated for every call for which
   the stream still holds len(out) bytes after the cursor. *)
C4_FillCopiesNextBytes ==
  (call.op \in {"fill", "bytes"} /\ call.pos + call.n <= Len(stream))
    => /\ err = "none"
       /\ ret = SubSeq(stream, call.pos + 1, call.pos + call.n)
       /\ Pos = call.pos + call.n

(* C5: fill, bytes and byte fail with UnexpectedEOFError exactly when the
   source ends before the requested bytes are delivered, and byte() never
   returns undefined. *)
C5_EOFExactlyWhenExhausted ==
  (call.op \in {"fill", "bytes", "byte"})
    => /\ (err = "UnexpectedEOFError") <=> (call.pos + call.n > Len(stream))
       /\ err \in {"none", "UnexpectedEOFError"}
       /\ (call.op = "byte" /\ err = "none") => ret # <<undefined>>

(* C8: for an adaptation field of declared length L >= 1, once the flag-gated
   sub-fields are decoded every remaining byte up to the declared length must
   be 0xFF, else the decode fails; on success exactly 1 + L bytes were
   consumed.  Stated for the fields that hold only the flags byte (all five
   presence flags clear) and are delivered whole: the decode succeeds iff the
   L - 1 bytes after the flags byte are all 0xFF. *)
C8_StuffingUpToDeclaredLength ==
  (/\ call.op = "parse_adaptation_field"
   /\ stream[1] >= 1
   /\ Len(stream) = 1 + stream[1]
   /\ stream[2] \in IndicatorFlags)
    => /\ (err = "none") <=> (\A i \in 3..Len(stream) : stream[i] = 255)
       /\ (err = "none") => (Pos = call.pos + 1 + stream[1])

(* C1: over a source holding exactly k >= 0 well-formed packets, in any
   chunking, parse_transport_stream yields exactly k packets, in order, and
   then ends without an error. *)
C1_YieldsAllPacketsThenEnds ==
  (pc \in {"done", "failed"} /\ Len(stream) = PacketSize * WholePackets(stream, 0))
    => /\ pc = "done"
       /\ err = "none"
       /\ Len(yielded) = WholePackets(stream, 0)
       /\ \A i \in 1..Len(yielded) :
             ToInt(yielded[i].PID) = PIDAt(stream, PacketSize * (i - 1))

(* C2: over a source that ends inside a packet (after its sync byte, before
   its 188th byte), the decode of that packet fails with UnexpectedEOFError:
   the sequence neither ends silently nor yields a truncated packet. *)
C2_MidPacketEndIsEOFError ==
  LET k == WholePackets(stream, 0)
  IN  (/\ pc \in {"done", "failed"}
       /\ Len(stream) > PacketSize * k
       /\ Len(stream) < PacketSize * (k + 1)
       /\ stream[PacketSize * k + 1] = sync_byte)
        => /\ pc = "failed"
           /\ err = "UnexpectedEOFError"
           /\ Len(yielded) = k

(* C3: when the generator is resumed at a packet boundary where the source is
   exhausted or the next byte is not the sync byte, the sequence ends cleanly:
   no error, no further packet. *)
C3_CleanEndAtBoundary ==
  (/\ call.op = "parse_transport_stream"
   /\ call.pos = PacketSize * call.n
   /\ (call.pos = Len(stream) \/ (call.pos < Len(stream) /\ stream[call.pos + 1] # sync_byte)))
    => /\ pc = "done"
       /\ err = "none"
       /\ Len(yielded) = call.n

(* C6: every packet parse_transport_packet decodes successfully takes exactly
   188 bytes from the ByteReader, whatever adaptation_field_control and the
   adaptation_field_length byte are (0 included); the payload, when present,
   is 184 bytes minus the adaptation field's bytes (its length byte plus the
   declared length). *)
C6_PacketConsumes188 ==
  (call.op = "parse_transport_packet" /\ err = "none")
    => /\ Pos = call.pos + PacketSize
       /\ "data_byte" \in DOMAIN ret =>
            Len(ret.data_byte) =
              184 - (IF (stream[call.pos + 4] \div 16) % 4 = 3
                     THEN 1 + stream[call.pos + 5] ELSE 0)

(* C7: parse_transport_packet on 0x47, a header with adaptation_field_control
   01 and 184 more bytes returns the PID (13 bits), the continuity counter
   (4 bits) and a data_byte of exactly those 184 bytes, with no
   adaptation_field key, and reads no adaptation-field length byte. *)
C7_PayloadOnlyPacket ==
  (/\ call.op = "parse_transport_packet"
   /\ SubSeq(stream, 1, PacketSize) \in PayloadPackets)
    => /\ err = "none"
       /\ DOMAIN ret = {"transport_error_indicator", "payload_unit_start_indicator",
                        "transport_priority", "PID", "transport_scrambling_control",
                        "continuity_counter", "data_byte"}
       /\ ToInt(ret.PID) = PIDAt(stream, 0)
       /\ ToInt(ret.continuity_counter) = stream[4] % 16
       /\ ret.data_byte = SubSeq(stream, 5, PacketSize)
       /\ Pos = PacketSize

(* C9: parse_PES_packet on a padding-stream packet (stream_id 1011_1110) of
   declared length L succeeds iff all L body bytes are 0xFF; a body byte that
   is not 0xFF makes it fail with MalformedDataError; and on success the
   result holds only the prefix and the stream id, no structured-header
   field. *)
C9_PaddingStreamAllOnes ==
  (call.op = "parse_PES_packet" /\ IsPaddingPacket(stream))
    => /\ (err = "none") <=> (\A i \in 7..Len(stream) : stream[i] = 255)
       /\ err \in {"none", "MalformedDataError"}
       /\ err = "none" => DOMAIN ret = {"packet_start_code_prefix", "stream_id"}

(* C10: for a structured-header PES packet with PTS_DTS_flags = 10 whose PTS
   field is laid out as 0010, h, marker, m, marker, l, marker, the decode
   gives PTS = ((h << 15) | m) << 15 | l = h * 2^30 + m * 2^15 + l and no
   DTS; with a marker bit 0 or a prefix other than 0010 the decode fails. *)
C10_PTSReconstruction ==
  (call.op = "parse_PES_packet" /\ IsPTSOnlyPacket(stream))
    => IF PrefixAt(stream, 9) = 2 /\ MarkersAt(stream, 9) = <<1, 1, 1>>
       THEN /\ err = "none"
            /\ "PTS" \in DOMAIN ret
            /\ ret.PTS = <<HighAt(stream, 9), MidAt(stream, 9) * (2^15) + LowAt(stream, 9)>>
            /\ "DTS" \notin DOMAIN ret
       ELSE err # "none"

(* C11: tcimsbf(n) returns the next n bits read as a two's complement number,
   first bit the sign: the unsigned value v of the bits when the first bit is
   0 and v - 2^n when it is 1, so that 11111111 is -1, 00000001 is 1 and
   10000000 is -128 for n = 8.  Stated for every successful call with
   n >= 1. *)
C11_TwosComplementValue ==
  (call.op = "tcimsbf" /\ call.n >= 1 /\ err = "none")
    => ret = <<TwosComplement(buffer, call.pos, call.n)>>

(* C12: uimsbf(n) with n in 0..53 and at least n bits left returns the
   unsigned number whose binary digits are the next n bits, most significant
   first, and advances the offset by n; with n > 53 it fails with the
   precision error ('n must be <= 53'); with n <= 53 larger than the bits
   left it fails with UnexpectedEOFError.  A failing call returns nothing. *)
C12_UnsignedValue ==
  (call.op = "uimsbf")
    => IF call.n > 53 THEN err = "Error" /\ ret = <<>>
       ELSE IF call.n > 8 * Len(buffer) - call.pos
            THEN err = "UnexpectedEOFError" /\ ret = <<>>
       ELSE /\ err = "none"
            /\ ret = <<Unsigned(buffer, call.pos, call.n)>>
            /\ offset = call.pos + call.n

\* uimsbf(53) read at bit offset 3 came back with a value above 2^30.
C12_Witness ==
  /\ call.op = "uimsbf"
  /\ call.n = 53
  /\ call.pos = 3
  /\ err = "none"
  /\ ret[1][1] > 0

(* C13: BitReader.bytes(n) fails with ByteNotAlignedError whenever the bit
   offset is not a multiple of 8, for every n, n = 0 and n larger than the
   bytes left included (alignment is looked at before the bound); at a
   multiple of 8 with at least n bytes left it returns the next n bytes and
   advances the offset by 8n. *)
C13_AlignmentFirst ==
  (call.op = "BitReader.bytes")
    => IF call.pos % 8 # 0
       THEN err = "ByteNotAlignedError" /\ ret = <<>> /\ offset = call.pos
       ELSE (call.n <= Len(buffer) - call.pos \div 8)
              => /\ err = "none"
                 /\ ret = <<SubSeq(buffer, call.pos \div 8 + 1, call.pos \div 8 + call.n)>>
                 /\ offset = call.pos + 8 * call.n

\* bytes(n) was refused for alignment although n was more than the bytes left.
C13_Witness ==
  /\ call.op = "BitReader.bytes"
  /\ call.pos % 8 # 0
  /\ call.n > Len(buffer) - call.pos \div 8
  /\ err = "ByteNotAlignedError"

(* C14: peek_bytes(n) returns the next n bytes and consumes nothing: whenever
   at least n bytes can still be obtained, at every cursor offset within the
   chunk and under every chunking, the view it returns has length n and
   equals what a bytes(n) that follows immediately returns. *)
C14_PeekThenBytes ==
  [][(/\ call.op = "peek_bytes"
      /\ call.n <= Len(Pending)
      /\ call'.op = "bytes"
      /\ call'.n = call.n)
       => (Len(ret) = call.n /\ err' = "none" /\ ret' = ret)]_vars

(* C15: eof() returns true exactly when no further byte can be obtained.  With
   an unread byte in the current chunk or in a later one it returns false and
   consumes nothing; an empty chunk is not the end, eof() pulls the next one;
   it returns true only once the source has signalled its end with no unread
   byte left. *)
C15_EofExactlyAtEnd ==
  (call.op = "eof")
    => /\ ret = <<call.pos >= Len(stream)>>
       /\ Pos = call.pos
       /\ (ret = <<TRUE>> => (~srcDefined /\ src = <<>>))

(* C16: unshift(b) puts b in front of the cursor: the reads that follow
   deliver b and then exactly the bytes they would have delivered without
   it, so x = bytes(n) followed by unshift(x) changes nothing for later
   reads.  Stated step by step: unshift succeeds and makes the bytes still to
   be delivered b followed by what they were, and a fill or bytes right after
   an unshift that asks for no more than is left returns the front of them
   and leaves the rest. *)
C16_UnshiftPrepends ==
  [][/\ (call'.op = "unshift") => (err' = "none" /\ Pending' = call'.arg \o Pending)
     /\ (call.op = "unshift" /\ call'.op \in {"fill", "bytes"} /\ call'.n <= Len(Pending))
          => /\ err' = "none"
             /\ ret' = SubSeq(Pending, 1, call'.n)
             /\ Pending' = SubSeq(Pending, call'.n + 1, Len(Pending))]_vars

(* C17: in parse_transport_stream the byte looked at to decide whether a
   packet follows is not consumed: parse_transport_packet starts at the sync
   byte, so the i-th packet of the sequence is decoded from the bytes
   188(i-1) .. 188i - 1 of the source.  Stated for every resumption that
   starts at byte 188(i-1) with a well-formed packet there: packet i is
   yielded, decoded from these bytes, and the cursor ends at byte 188i. *)
C17_LookAheadNotConsumed ==
  (/\ call.op = "parse_transport_stream"
   /\ call.pos = PacketSize * call.n
   /\ IsPacketAt(stream, call.pos))
    => /\ err = "none"
       /\ Len(yielded) = call.n + 1
       /\ ToInt(yielded[call.n + 1].PID) = PIDAt(stream, call.pos)
       /\ Pos = call.pos + PacketSize

(* C18: ByteReader invariant.  After any sequence of byte, bytes, fill, eof,
   peek_bytes, peek_buffer and unshift calls, over chunks of any sizes, empty
   ones included, 0 <= offset <= length of the current chunk; at offset =
   length the next read pulls a new chunk or learns that the source is
   finished before it returns a byte; and no read returns a byte from
   outside the current chunk (undefined) or skips an unread byte: what a
   successful fill, bytes or byte returns are the next bytes of the stream. *)
C18_CursorWithinChunk ==
  /\ 0 <= offset
  /\ offset <= Len(buffer)
  /\ (call.op \in {"fill", "bytes"} /\ err = "none")
       => (ret = SubSeq(stream, call.pos + 1, call.pos + call.n) /\ Pos = call.pos + call.n)
  /\ (call.op = "byte" /\ err = "none")
       => (ret # <<undefined>> /\ ret = SubSeq(stream, call.pos + 1, call.pos + 1)
           /\ Pos = call.pos + 1)

\* The last call was uimsbf, bslbf or tcimsbf.
BitCall == call.op \in {"uimsbf", "bslbf", "tcimsbf"}

\* The last call asked for bits or bytes beyond the end of the buffer.
PastEnd ==
  \/ BitCall /\ call.pos + call.n > 8 * Len(buffer)
  \/ call.op = "BitReader.bytes" /\ call.pos + 8 * call.n > 8 * Len(buffer)

\* What every BitReader call keeps: tell() stays within the buffer, a failing
\* call leaves it where it was, a successful one advances it by n bits or 8n.
TellAdvances ==
  /\ 0 <= offset
  /\ offset <= 8 * Len(buffer)
  /\ (BitCall \/ call.op = "BitReader.bytes")
       => /\ PastEnd => err # "none"
          /\ err # "none" => offset = call.pos
          /\ (err = "none" /\ BitCall) => offset = call.pos + call.n
          /\ (err = "none" /\ call.op = "BitReader.bytes") => offset = call.pos + 8 * call.n

(* C19, as amended: BitReader invariant.  After any sequence of uimsbf,
   bslbf, tcimsbf and bytes calls, successful or failing,
   0 <= tell() <= 8 * buffer length; a read that would pass the end of the
   buffer fails and leaves tell() unchanged, with UnexpectedEOFError unless an
   earlier check of the call fails first: the precision error for more than
   53 bits, ByteNotAlignedError for bytes at an offset that is no multiple of
   8; a successful read of n bits (n bytes) advances tell() by exactly n
   (8n). *)
C19_TellWithinBuffer ==
  /\ TellAdvances
  /\ PastEnd
       => err = (IF BitCall /\ call.n > 53 THEN "Error"
                 ELSE IF call.op = "BitReader.bytes" /\ call.pos % 8 # 0
                      THEN "ByteNotAlignedError"
                 ELSE "UnexpectedEOFError")

(* C19, as stated: the same, with every read that would pass the end of the
   buffer failing with UnexpectedEOFError. *)
C19_PastEndAlwaysEOF ==
  /\ TellAdvances
  /\ PastEnd => err = "UnexpectedEOFError"

\* A tcimsbf past the end of the buffer failed with UnexpectedEOFError at an
\* offset inside a byte and left the offset there.
C19_Witness ==
  /\ call.op = "tcimsbf"
  /\ PastEnd
  /\ err = "UnexpectedEOFError"
  /\ call.pos % 8 = 3
  /\ offset = call.pos

\* s is one whole structured-header PES packet without a PES extension.
IsStructuredPacket(s) ==
  /\ Len(s) >= 9
  /\ Len(s) = 6 + DeclaredLength(s)
  /\ s[4] = VideoStreamID
  /\ s[8] % 2 = 0

\* The header bytes the flags of s announce: PTS (5) or PTS and DTS (10),
\* ESCR (6), ES_rate (3), DSM trick mode (1), additional copy info (1) and
\* the previous CRC (2).
GatedBytes(s) ==
  (IF s[8] \div 64 = 2 THEN 5 ELSE IF s[8] \div 64 = 3 THEN 10 ELSE 0)
    + (IF (s[8] \div 32) % 2 = 1 THEN 6 ELSE 0)
    + (IF (s[8] \div 16) % 2 = 1 THEN 3 ELSE 0)
    + (IF (s[8] \div 8) % 2 = 1 THEN 1 ELSE 0)
    + (IF (s[8] \div 4) % 2 = 1 THEN 1 ELSE 0)
    + (IF (s[8] \div 2) % 2 = 1 THEN 2 ELSE 0)

(* C20: in a structured-header PES packet, with N1 = PES_header_data_length
   minus the header bytes the gated fields take: N1 > 32 fails the decode;
   for 0 <= N1 <= 32 the next N1 bytes must each be 0xFF or the decode
   fails; on success PES_packet_data is exactly the bytes that remain up to
   the declared PES_packet_length.  A packet without gated fields whose N1
   bytes of stuffing are all 0xFF decodes. *)
C20_StuffingThenPayload ==
  LET N1 == stream[9] - GatedBytes(stream)
      first == 9 + GatedBytes(stream)
  IN  (call.op = "parse_PES_packet" /\ IsStructuredPacket(stream))
        => /\ (N1 > 32) => err # "none"
           /\ (N1 \in 0..32 /\ \E i \in 1..N1 : first + i <= Len(stream)
                                                  /\ stream[first + i] # 255)
                => err # "none"
           /\ (N1 \in 0..32 /\ err = "none")
                => /\ "PES_packet_data" \in DOMAIN ret
                   /\ ret.PES_packet_data = SubSeq(stream, first + N1 + 1, Len(stream))
           /\ (/\ stream[7] = 128
               /\ stream[8] = 0
               /\ N1 \in 0..32
               /\ first + N1 <= Len(stream)
               /\ \A i \in 1..N1 : stream[first + i] = 255)
                => err = "none"

\* s is one whole structured-header PES packet whose only gated field is the
\* DSM trick mode byte, with PES_header_data_length 1.
IsTrickModePacket(s) ==
  /\ Len(s) >= 10
  /\ Len(s) = 6 + DeclaredLength(s)
  /\ s[4] = VideoStreamID
  /\ s[7] = 128
  /\ s[8] = 8
  /\ s[9] = 1

\* The fields the 5 bits low give for trick_mode_control c, as ret holds them.
TrickModeShape(c, low) ==
  IF c \in {FastForward, FastReverse}
  THEN /\ ToInt(ret.field_id) = low \div 8
       /\ ret.intra_slice_refresh = ((low \div 4) % 2 = 1)
       /\ ToInt(ret.frequency_truncation) = low % 4
  ELSE IF c \in {SlowMotion, SlowReverse}
  THEN ToInt(ret.rep_cntrl) = low
  ELSE ToInt(ret.field_id) = low \div 8

(* C21: with DSM_trick_mode_flag = 1, each of the five defined
   trick_mode_control values (000, 001, 010, 011, 100) takes exactly 8 bits,
   the 3-bit control and a 5-bit shape, so that the byte after it is where
   the decode goes on; every other value (101, 110, 111) fails the decode
   with UnimplementedReserveError, not MalformedDataError.  A freeze frame
   whose 3 reserved bits are not all 1 fails as well. *)
C21_TrickModeTakesOneByte ==
  LET c == stream[10] \div 32
      low == stream[10] % 32
  IN  (call.op = "parse_PES_packet" /\ IsTrickModePacket(stream))
        => IF c \in {5, 6, 7} THEN err = "UnimplementedReserveError"
           ELSE IF c = FreezeFrame /\ low % 8 # 7 THEN err # "none"
           ELSE /\ err = "none"
                /\ ToInt(ret.trick_mode_control) = c
                /\ TrickModeShape(c, low)
                /\ ret.PES_packet_data = SubSeq(stream, 11, Len(stream))

(* C22: parse_adaptation_field comes back, with a result or with an error, on
   every adaptation field of bounded length, also on one whose
   adaptation_field_extension_flag is 1 and af_descriptor_not_present_flag is
   0: the descriptor parser is called once per descriptor and the decode goes
   on to the stuffing bytes. *)
C22_DescriptorLoopEnds ==
  (call.op = "parse_adaptation_field") => err # "never returns"

\* s holds a whole adaptation field whose only gated field is a PCR with a
\* reserved bit that is not 1, or an extension whose four reserved bits are
\* not all 1.
HasReservedBitNotOne(s) ==
  /\ Len(s) >= 4
  /\ s[1] >= 1
  /\ Len(s) >= 1 + s[1]
  /\ \/ s[2] = 16 /\ s[1] >= 7 /\ (s[7] \div 2) % 64 # 63
     \/ s[2] = 1 /\ s[1] >= 2 /\ s[4] % 16 # 15

(* C23: a reserved bit that is not 1 (the 6 reserved bits of a PCR or OPCR,
   the reserved bits of the adaptation field extension) fails the decode with
   MalformedDataError, the kind also raised for a marker bit not 1, a
   stuffing byte not 0xFF and a wrong fixed prefix; UnimplementedReserveError
   is raised only for reserved code points, of which an adaptation field has
   none. *)
C23_ReservedBitIsMalformedData ==
  (call.op = "parse_adaptation_field")
    => /\ err # "UnimplementedReserveError"
       /\ HasReservedBitNotOne(stream) => err = "MalformedDataError"

(* C25: for every interleaving of the producer's push and end calls with the
   consumer's next calls, several next calls pending before any push and end
   called with values still queued included: each pushed value goes to
   exactly one next call, the values go in push order to the next calls in
   call order, done goes to a call only after every value pushed before end
   has been delivered, and the queue of values and the queue of pending next
   calls are never both non-empty. *)
C25_EachValueToOneNextInOrder ==
  /\ ValuesOf(results) \o push_queue = pushed
  /\ \A i \in 1..Len(results) : \A j \in 1..Len(results) :
       (i < j /\ results[i] = <<>>) => results[j] = <<>>
  /\ \A i \in 1..Len(results) :
       results[i] = <<done_result>> => (ended /\ ValuesOf(SubSeq(results, 1, i)) = pushed)
  /\ \A i \in 1..Len(results) :
       results[i] = <<>> <=> \E k \in 1..Len(next_queue) : next_queue[k] = i
  /\ ~(push_queue # <<>> /\ next_queue # <<>>)

\* A push has resolved the first of several pending next calls, and a later
\* one is still pending.
C25_Witness ==
  /\ call.op = "push"
  /\ ret = <<TRUE>>
  /\ results[1] = <<[done |-> FALSE, value |-> 1]>>
  /\ next_queue # <<>>


(* C24: nothing comes back after the end.  Once a next() call of a Stream has
   got done, every later next() call gets done and never a value; push()
   after end() throws and leaves the queues as they were; and a ByteReader
   whose source has signalled its end, with no byte left to deliver (none
   unshifted since), answers every later eof() with true and does not ask the
   source for another chunk. *)
C24_DoneStaysDone ==
  \A i \in 1..Len(results) : \A j \in 1..Len(results) :
    (i < j /\ results[i] = <<done_result>>) => results[j] = <<done_result>>

C24_PushAfterEndThrows ==
  (ended /\ call'.op = "push")
    => (err' = "Error" /\ UNCHANGED <<ended, push_queue, next_queue, results>>)

C24_EofAfterEnd ==
  (~srcDefined /\ Pending = <<>> /\ call'.op = "eof")
    => (ret' = <<TRUE>> /\ UNCHANGED <<src, srcDefined>>)

C24_NeverResurrects ==
  [][C24_DoneStaysDone' /\ C24_PushAfterEndThrows /\ C24_EofAfterEnd]_vars

====
